---------------------------- MODULE Spec2Model ----------------------------
(***************************************************************************)
(* A model of the Harris corner detector (oneam/harris): the boundary      *)
(* reflection, the filter kernel, the detector's construction, the         *)
(* row-parallel operators and the tail of HarrisCpp::FindCorners.          *)
(*                                                                         *)
(* Numbers.  A C++ int is modelled by an integer: every coordinate the     *)
(* program computes is an image coordinate plus or minus half a window,    *)
(* far from the edges of int.  A C++ float is modelled by an integer too   *)
(* (small integers and their sums and products are exact floats); a ratio  *)
(* such as threshold_ratio is a rational num/RatioDen and a comparison     *)
(* with it is made by cross-multiplication.                                *)
(***************************************************************************)
EXTENDS Integers, Sequences, FiniteSets, TLC

VARIABLES
    \* Reflect(value, min, max): one call and a second call on its result
    r_value, r_min, r_max, r_result, r_again, r_pc,
    \* FilterKernel(width, height, values): the arguments and the outcome
    fk_width, fk_height, fk_values, fk_result, fk_pc,
    \* HarrisCpp(smoothing_size, structure_size, harris_k, threshold_ratio,
    \* suppression_size): the arguments, the members and the constructor's place
    h_args, smoothing_size_, structure_size_, k_, threshold_ratio_,
    suppression_size_, gaussian_kernel_, diff_x_, diff_y_, h_error, h_pc,
    \* One call of an image operator: which one, its arguments, what it
    \* handed back
    o_op, o_args, o_result, o_pc,
    \* Reduce(src, acc, func): the image, the initial accumulator, the
    \* accumulator the row tasks share, each row task's x and what it has read
    \* of the accumulator, and what Reduce returned
    rd_src, rd_a0, rd_acc, rd_x, rd_read, rd_result, rd_pc,
    \* HarrisCpp::FindCorners from the response image on: response, max_r,
    \* threshold, and the corners and the threshold_ratio_ of each run so far
    fc_response, fc_max_r, fc_threshold, fc_corners, fc_ratios, fc_pc,
    \* The row tasks of one row-parallel operator: the operator, the image
    \* size, the window radius, each task's dest_x, and the locations written
    \* and read so far, each with the task that did it
    t_op, t_width, t_height, t_half_window, t_x, t_writes, t_reads, t_pc,
    \* GaussianKernel(size): the argument, kernel_values, the values summed
    \* into sum, how many values have been divided by sum, and the outcome
    g_size, g_kernel_values, g_sum, g_divided, g_result, g_pc,
    \* HarrisCpp::FindCorners from the Argb32 image on, with pixels that may be
    \* NaN: the image, float_image, structure_tensor, response, the accumulator
    \* Reduce's row tasks share with each task's x and what it has read,
    \* max_r, threshold and corners
    im_image, im_float_image, im_structure_tensor, im_response, im_acc, im_x,
    im_read, im_max_r, im_threshold, im_corners, im_pc,
    \* One Image<P> constructor call: which constructor, the pixel type P, the arguments and the object it leaves
    ic_ctor, ic_pixel, ic_args, ic_result, ic_pc,
    \* The free function HarrisCorners: its parameters, the source's width and height, the stages that have processed pixels so far, and its place
    hc_args, hc_width, hc_height, hc_ran, hc_pc,
    \* HarrisOpenCL::FindCorners: the host's position, the OpenCL handles its locals hold, the releases made and each kernel's execution on the device
    cl_pc, cl_step, cl_handle, cl_released, cl_stray, cl_kernel, cl_queue, cl_error

reflectVars == <<r_value, r_min, r_max, r_result, r_again, r_pc>>

kernelVars == <<fk_width, fk_height, fk_values, fk_result, fk_pc>>

harrisVars == <<h_args, smoothing_size_, structure_size_, k_, threshold_ratio_,
                suppression_size_, gaussian_kernel_, diff_x_, diff_y_,
                h_error, h_pc>>

operatorVars == <<o_op, o_args, o_result, o_pc>>

reduceVars == <<rd_src, rd_a0, rd_acc, rd_x, rd_read, rd_result, rd_pc>>

findCornersVars == <<fc_response, fc_max_r, fc_threshold, fc_corners, fc_ratios, fc_pc>>

rowTaskVars == <<t_op, t_width, t_height, t_half_window, t_x, t_writes, t_reads, t_pc>>

gaussianVars == <<g_size, g_kernel_values, g_sum, g_divided, g_result, g_pc>>

imageVars == <<im_image, im_float_image, im_structure_tensor, im_response, im_acc,
               im_x, im_read, im_max_r, im_threshold, im_corners, im_pc>>

ctorVars == <<ic_ctor, ic_pixel, ic_args, ic_result, ic_pc>>

cornersVars == <<hc_args, hc_width, hc_height, hc_ran, hc_pc>>

openclVars == <<cl_pc, cl_step, cl_handle, cl_released, cl_stray, cl_kernel, cl_queue, cl_error>>

vars == <<reflectVars, kernelVars, harrisVars, operatorVars, reduceVars,
          findCornersVars, rowTaskVars, gaussianVars, imageVars,
          ctorVars,
          cornersVars,
          openclVars>>

\* What a step of one program leaves alone: the other programs' variables
notReflect == <<kernelVars, harrisVars, operatorVars, reduceVars, findCornersVars, rowTaskVars, gaussianVars, imageVars, ctorVars, cornersVars, openclVars>>

notKernel == <<reflectVars, harrisVars, operatorVars, reduceVars, findCornersVars, rowTaskVars, gaussianVars, imageVars, ctorVars, cornersVars, openclVars>>

notHarris == <<reflectVars, kernelVars, operatorVars, reduceVars, findCornersVars, rowTaskVars, gaussianVars, imageVars, ctorVars, cornersVars, openclVars>>

notOperator == <<reflectVars, kernelVars, harrisVars, reduceVars, findCornersVars, rowTaskVars, gaussianVars, imageVars, ctorVars, cornersVars, openclVars>>

\* Reduce runs on its own and inside FindCorners
notReduce == <<reflectVars, kernelVars, harrisVars, operatorVars, rowTaskVars, gaussianVars, imageVars, ctorVars, cornersVars, openclVars>>

notGaussian == <<reflectVars, kernelVars, harrisVars, operatorVars, reduceVars, findCornersVars, rowTaskVars, imageVars, ctorVars, cornersVars, openclVars>>

notImage == <<reflectVars, kernelVars, harrisVars, operatorVars, reduceVars, findCornersVars, rowTaskVars, gaussianVars, ctorVars, cornersVars, openclVars>>

\* A second detector is built between two FindCorners runs
notRatios == <<reflectVars, kernelVars, operatorVars, rowTaskVars, gaussianVars, imageVars, ctorVars, cornersVars, openclVars>>

notCtor == <<reflectVars, kernelVars, harrisVars, operatorVars, reduceVars, findCornersVars, rowTaskVars, gaussianVars, imageVars, cornersVars, openclVars>>

notCorners == <<reflectVars, kernelVars, harrisVars, operatorVars, reduceVars, findCornersVars, rowTaskVars, gaussianVars, imageVars, ctorVars, openclVars>>

notOpenCL == <<reflectVars, kernelVars, harrisVars, operatorVars, reduceVars, findCornersVars, rowTaskVars, gaussianVars, imageVars, ctorVars, cornersVars>>

notRowTasks == <<reflectVars, kernelVars, harrisVars, operatorVars, reduceVars, findCornersVars, gaussianVars, imageVars, ctorVars, cornersVars, openclVars>>

-----------------------------------------------------------------------------
(* Bounds of the model *)

\* Reflect's arguments are drawn from -MaxCoord..MaxCoord
MaxCoord == 4

\* FilterKernel's width and height are drawn from -1..MaxKernelDim
MaxKernelDim == 3

\* FilterKernel is handed at most MaxKernelLen weights
MaxKernelLen == 3

\* The detector's three window sizes are drawn from -1..MaxSize
MaxSize == 3

\* threshold_ratio is num/RatioDen with num in -1..RatioDen+1
RatioDen == 2

\* An image is 1..MaxWidth pixels wide and 1..MaxHeight pixels high
MaxWidth == 2

MaxHeight == 2

\* A pixel is -1..MaxPixel, and at most MaxPeaks pixels of an image are not 0
MaxPixel == 2

MaxPeaks == 2

\* A window size handed to an operator is 1..MaxWindow
MaxWindow == 5

\* A ramp image is 1..MaxRamp pixels wide and high
MaxRamp == 3

\* GaussianKernel's size is drawn from -1..MaxGaussian
MaxGaussian == 7

\* An Image constructor's width and height are drawn from -1..MaxImageDim
MaxImageDim == 2

\* its stride from 0..MaxStride bytes
MaxStride == 12

\* and the byte vector's size from 0..MaxBytes
MaxBytes == 24

\* The all-zero images handed to FindCorners are up to MaxBlank x MaxBlank
MaxBlank == 2

\* HarrisCorners' three sizes are drawn from -1..MaxCornerSize
MaxCornerSize == 3

\* and its source image is up to MaxCornerDim x MaxCornerDim
MaxCornerDim == 3

\* The response buffers the three suppressions are compared on are up to
\* MaxSuppressDim x MaxSuppressDim
MaxSuppressDim == 3

-----------------------------------------------------------------------------
(* What a C++ function that may throw hands back: a value, or the thrown  *)
(* std::invalid_argument.                                                  *)

Ret(v) == [thrown |-> FALSE, value |-> v]

Throw == [thrown |-> TRUE, value |-> 0]

NoResult == [thrown |-> FALSE, value |-> 0]

\* A float that need not be whole (harris_k, threshold_ratio, threshold) is
\* the rational num/den, den > 0
Rat(n, d) == [num |-> n, den |-> d]

\* pixel < r and pixel > r for a whole pixel and a rational r
LessThan(pixel, r) == pixel * r.den < r.num

GreaterThan(pixel, r) == pixel * r.den > r.num

-----------------------------------------------------------------------------
(* src/numerics.h *)

\* Reflect with the edge pixel repeated (-1 maps to 0, max + 1 to max): what
\* the reflection would accept if the mirror lay between pixels
ReflectSymmetric(value, min, max) ==
    IF value > max
    THEN LET reflected == max + max - value + 1
         IN  IF reflected < min THEN Throw ELSE Ret(reflected)
    ELSE IF value < min
    THEN LET reflected == min + min - value - 1
         IN  IF reflected > max THEN Throw ELSE Ret(reflected)
    ELSE Ret(value)

\* A slip of Reflect: a mirror image on the far edge counts as out of range
ReflectStrict(value, min, max) ==
    IF value > max
    THEN LET reflected == max + max - value
         IN  IF reflected <= min THEN Throw ELSE Ret(reflected)
    ELSE IF value < min
    THEN LET reflected == min + min - value
         IN  IF reflected >= max THEN Throw ELSE Ret(reflected)
    ELSE Ret(value)

\* A slip of Reflect: the upper mirror image taken about max/2
ReflectHalfMirror(value, min, max) ==
    IF value > max
    THEN LET reflected == max - value
         IN  IF reflected < min THEN Throw ELSE Ret(reflected)
    ELSE IF value < min
    THEN LET reflected == min + min - value
         IN  IF reflected > max THEN Throw ELSE Ret(reflected)
    ELSE Ret(value)

\* A slip of Reflect: an in-range value is pulled to the lower edge
ReflectToMin(value, min, max) ==
    IF value > max
    THEN LET reflected == max + max - value
         IN  IF reflected < min THEN Throw ELSE Ret(reflected)
    ELSE IF value < min
    THEN LET reflected == min + min - value
         IN  IF reflected > max THEN Throw ELSE Ret(reflected)
    ELSE Ret(min)

\* int Reflect(int value, int min, int max)
Reflect(value, min, max) ==
    IF value > max
    THEN LET reflected == max + max - value
         IN  IF reflected < min THEN Throw ELSE Ret(reflected)
    ELSE IF value < min
    THEN LET reflected == min + min - value
         IN  IF reflected > max THEN Throw ELSE Ret(reflected)
    ELSE Ret(value)

-----------------------------------------------------------------------------
(* src/filter_2d.h *)

\* A FilterKernel object: width_, height_ and data_ in raster-scan order
Kernel(width, height, values) ==
    [width_ |-> width, height_ |-> height, data_ |-> values]

NoKernel == Kernel(0, 0, <<>>)

KernelRet(k) == [thrown |-> FALSE, value |-> k]

KernelThrow == [thrown |-> TRUE, value |-> NoKernel]

\* A slip of FilterKernel's constructor: the height's parity is not checked
FilterKernelNoHeightParity(width, height, values) ==
    IF width <= 0 THEN KernelThrow
    ELSE IF height <= 0 THEN KernelThrow
    ELSE IF width % 2 = 0 THEN KernelThrow
    ELSE IF Len(values) # width * height THEN KernelThrow
    ELSE KernelRet(Kernel(width, height, values))

\* FilterKernel::FilterKernel(int width, int height, values), the same for an
\* initializer_list and for a vector: the members are set, then checked
FilterKernel(width, height, values) ==
    IF width <= 0 THEN KernelThrow
    ELSE IF height <= 0 THEN KernelThrow
    ELSE IF width % 2 = 0 THEN KernelThrow
    ELSE IF height % 2 = 0 THEN KernelThrow
    ELSE IF Len(values) # width * height THEN KernelThrow
    ELSE KernelRet(Kernel(width, height, values))

\* value of GaussianKernel(size) at (x_f, y_f):
\* exp(-(x_f*x_f + y_f*y_f) / (2*sigma*sigma)) with sigma = (size-1)/4, kept
\* as the exponent's numerator and denominator; for size = 1 the exponent is
\* -0/0
GaussianValue(x_f, y_f, size) ==
    [exp_num |-> 0 - 8 * (x_f * x_f + y_f * y_f),
     exp_den |-> (size - 1) * (size - 1)]

\* A kernel weight of GaussianKernel: a value divided by the sum of the values
\* in over, or not divided yet when over is empty
Weight(value, over) == [value |-> value, over |-> over]

\* kernel_values after the two loops over y and x
GaussianValues(size) ==
    LET offset == size \div 2
    IN  [i \in 1..(size * size) |->
            GaussianValue(((i - 1) % size) - offset,
                          ((i - 1) \div size) - offset, size)]

\* FilterKernel GaussianKernel(int size): sum is the sum of all the values, and
\* every value is divided by it
GaussianKernel(size) ==
    IF size <= 0 \/ size % 2 = 0 THEN KernelThrow
    ELSE LET kernel_values == GaussianValues(size)
         IN  FilterKernel(size, size,
                          [i \in 1..(size * size) |->
                              Weight(kernel_values[i], kernel_values)])

-----------------------------------------------------------------------------
(* src/image.h *)

\* An Image<P>: width_, height_ and the pixels row by row (data_ read through
\* RowPtr); a row is a sequence, so pixel (x, y) is data_[y + 1][x + 1]
Image(width, height, rows) ==
    [width_ |-> width, height_ |-> height, data_ |-> rows]

NoImage == Image(0, 0, <<>>)

ImageRet(img) == [thrown |-> FALSE, value |-> img]

ImageThrow == [thrown |-> TRUE, value |-> NoImage]

\* src.RowPtr(y)[x]
Pixel(src, x, y) == src.data_[y + 1][x + 1]

\* StructureTensor(): xx, yy and xy are 0
StructureTensor == [xx |-> 0, yy |-> 0, xy |-> 0]

-----------------------------------------------------------------------------
(* src/filter_2d.h: Filter2d *)

RECURSIVE Filter2dPixelAssigned(_, _, _, _, _)
\* A slip of Filter2d: dest_pixel = src_pixel * kernel_value, not +=
Filter2dPixelAssigned(src, kernel, dest_x, dest_y, n) ==
    IF n = 0 THEN Ret(0)
    ELSE LET dest_pixel == Filter2dPixelAssigned(src, kernel, dest_x, dest_y, n - 1)
             kernel_y == (n - 1) \div kernel.width_
             kernel_x == (n - 1) % kernel.width_
             kernel_x_offset == kernel.width_ \div 2
             kernel_y_offset == kernel.height_ \div 2
             src_y == Reflect(dest_y + kernel_y - kernel_y_offset, 0, src.height_ - 1)
             src_x == Reflect(dest_x + kernel_x - kernel_x_offset, 0, src.width_ - 1)
             src_pixel == Pixel(src, src_x.value, src_y.value)
             kernel_value == kernel.data_[kernel_y * kernel.width_ + kernel_x + 1]
         IN  IF dest_pixel.thrown \/ src_y.thrown \/ src_x.thrown THEN Throw
             ELSE Ret(src_pixel * kernel_value)

RECURSIVE Filter2dPixelFlipped(_, _, _, _, _)
\* A slip of Filter2d: the kernel row is read back to front (a convolution)
Filter2dPixelFlipped(src, kernel, dest_x, dest_y, n) ==
    IF n = 0 THEN Ret(0)
    ELSE LET dest_pixel == Filter2dPixelFlipped(src, kernel, dest_x, dest_y, n - 1)
             kernel_y == (n - 1) \div kernel.width_
             kernel_x == (n - 1) % kernel.width_
             kernel_x_offset == kernel.width_ \div 2
             kernel_y_offset == kernel.height_ \div 2
             src_y == Reflect(dest_y + kernel_y - kernel_y_offset, 0, src.height_ - 1)
             src_x == Reflect(dest_x + kernel_x - kernel_x_offset, 0, src.width_ - 1)
             src_pixel == Pixel(src, src_x.value, src_y.value)
             kernel_value == kernel.data_[kernel_y * kernel.width_
                                          + (kernel.width_ - 1 - kernel_x) + 1]
         IN  IF dest_pixel.thrown \/ src_y.thrown \/ src_x.thrown THEN Throw
             ELSE Ret(dest_pixel.value + src_pixel * kernel_value)

RECURSIVE Filter2dPixel(_, _, _, _, _)
\* dest_pixel of Filter2d at (dest_x, dest_y) after the first n kernel cells,
\* taken row by row as the two inner loops take them; thrown when one of the
\* Reflect calls on the way threw
Filter2dPixel(src, kernel, dest_x, dest_y, n) ==
    IF n = 0 THEN Ret(0)
    ELSE LET dest_pixel == Filter2dPixel(src, kernel, dest_x, dest_y, n - 1)
             kernel_y == (n - 1) \div kernel.width_
             kernel_x == (n - 1) % kernel.width_
             kernel_x_offset == kernel.width_ \div 2
             kernel_y_offset == kernel.height_ \div 2
             src_y == Reflect(dest_y + kernel_y - kernel_y_offset, 0, src.height_ - 1)
             src_x == Reflect(dest_x + kernel_x - kernel_x_offset, 0, src.width_ - 1)
             src_pixel == Pixel(src, src_x.value, src_y.value)
             kernel_value == kernel.data_[kernel_y * kernel.width_ + kernel_x + 1]
         IN  IF dest_pixel.thrown \/ src_y.thrown \/ src_x.thrown THEN Throw
             ELSE Ret(dest_pixel.value + src_pixel * kernel_value)

\* Image<float> Filter2d(const Image<float>& src, const FilterKernel& kernel)
Filter2d(src, kernel) ==
    LET cells == kernel.width_ * kernel.height_
    IN  IF \E dest_y \in 0..(src.height_ - 1) : \E dest_x \in 0..(src.width_ - 1) :
               Filter2dPixel(src, kernel, dest_x, dest_y, cells).thrown
        THEN ImageThrow
        ELSE ImageRet(Image(src.width_, src.height_,
                 [y \in 1..src.height_ |-> [x \in 1..src.width_ |->
                     Filter2dPixel(src, kernel, x - 1, y - 1, cells).value]]))

-----------------------------------------------------------------------------
(* src/map_2d.h and src/harris_corner_detector.h: the windowed operators.  *)
(* A functor argument is a record naming the lambda the caller passes,      *)
(* with what the lambda captures.                                           *)

\* The lambdas of NonMaxSuppressionUsingMap, which capture threshold
SuppressionLambdas(threshold) ==
    [name |-> "NonMaxSuppressionUsingMap", threshold |-> threshold]

\* Functors that record their calls: acc is the list of the pixels it was
\* given and final_func wraps it, so that the output shows which calls
\* MapWindowed made and in what order
RecordingLambdas ==
    [name |-> "Recording", threshold |-> Rat(0, 1)]

\* init_func(src_pixel)
InitFunc(funcs, src_pixel) ==
    IF funcs.name = "Recording" THEN <<src_pixel>>
    ELSE IF GreaterThan(src_pixel, funcs.threshold) THEN src_pixel ELSE 0

\* window_func(acc, src_pixel)
WindowFunc(funcs, acc, src_pixel) ==
    IF funcs.name = "Recording" THEN Append(acc, src_pixel)
    ELSE IF src_pixel > acc THEN 0 ELSE acc

\* final_func(acc)
FinalFunc(funcs, acc) ==
    IF funcs.name = "Recording" THEN [final |-> acc]
    ELSE IF acc > 0 THEN 1 ELSE 0

RECURSIVE MapWindowedAccColumnMajor(_, _, _, _, _, _)
\* A slip of MapWindowed: the window is walked column by column
MapWindowedAccColumnMajor(src, half_window, funcs, dest_x, dest_y, n) ==
    IF n = 0 THEN Ret(InitFunc(funcs, Pixel(src, dest_x, dest_y)))
    ELSE LET acc == MapWindowedAccColumnMajor(src, half_window, funcs, dest_x, dest_y, n - 1)
             side == 2 * half_window + 1
             window_y == dest_y - half_window + ((n - 1) % side)
             window_x == dest_x - half_window + ((n - 1) \div side)
             window_src_y == Reflect(window_y, 0, src.height_ - 1)
             window_src_x == Reflect(window_x, 0, src.width_ - 1)
             window_src_pixel == Pixel(src, window_src_x.value, window_src_y.value)
         IN  IF acc.thrown \/ window_src_y.thrown \/ window_src_x.thrown THEN Throw
             ELSE Ret(WindowFunc(funcs, acc.value, window_src_pixel))

RECURSIVE MapWindowedAcc(_, _, _, _, _, _)
\* acc of MapWindowed at (dest_x, dest_y) after the first n window positions
MapWindowedAcc(src, half_window, funcs, dest_x, dest_y, n) ==
    IF n = 0 THEN Ret(InitFunc(funcs, Pixel(src, dest_x, dest_y)))
    ELSE LET acc == MapWindowedAcc(src, half_window, funcs, dest_x, dest_y, n - 1)
             side == 2 * half_window + 1
             window_y == dest_y - half_window + ((n - 1) \div side)
             window_x == dest_x - half_window + ((n - 1) % side)
             window_src_y == Reflect(window_y, 0, src.height_ - 1)
             window_src_x == Reflect(window_x, 0, src.width_ - 1)
             window_src_pixel == Pixel(src, window_src_x.value, window_src_y.value)
         IN  IF acc.thrown \/ window_src_y.thrown \/ window_src_x.thrown THEN Throw
             ELSE Ret(WindowFunc(funcs, acc.value, window_src_pixel))

\* Image<Dest> MapWindowed(src, window_size, init_func, window_func, final_func)
MapWindowed(src, window_size, funcs) ==
    IF window_size <= 0 \/ window_size % 2 = 0 THEN ImageThrow
    ELSE LET half_window == window_size \div 2
             cells == (2 * half_window + 1) * (2 * half_window + 1)
         IN  IF \E dest_y \in 0..(src.height_ - 1) : \E dest_x \in 0..(src.width_ - 1) :
                    MapWindowedAcc(src, half_window, funcs, dest_x, dest_y, cells).thrown
             THEN ImageThrow
             ELSE ImageRet(Image(src.width_, src.height_,
                      [y \in 1..src.height_ |-> [x \in 1..src.width_ |->
                          FinalFunc(funcs, MapWindowedAcc(src, half_window, funcs,
                                                          x - 1, y - 1, cells).value)]]))

\* Image<float> NonMaxSuppressionUsingMap(src, window_size, threshold)
NonMaxSuppressionUsingMap(src, window_size, threshold) ==
    MapWindowed(src, window_size, SuppressionLambdas(threshold))

\* The window lambda of StructureTensorImageUsingCombine
TensorWindowFunc(s, i_x, i_y) ==
    [xx |-> s.xx + i_x * i_x, yy |-> s.yy + i_y * i_y, xy |-> s.xy + i_x * i_y]

TensorRet(s) == [thrown |-> FALSE, value |-> s]

TensorThrow == [thrown |-> TRUE, value |-> StructureTensor]

RECURSIVE CombineWindowedAcc(_, _, _, _, _, _)
\* acc of CombineWindowed at (dest_x, dest_y) after the first n window
\* positions; init_func of StructureTensorImageUsingCombine is StructureTensor()
CombineWindowedAcc(src1, src2, half_window, dest_x, dest_y, n) ==
    IF n = 0 THEN TensorRet(StructureTensor)
    ELSE LET acc == CombineWindowedAcc(src1, src2, half_window, dest_x, dest_y, n - 1)
             side == 2 * half_window + 1
             window_y == ((n - 1) \div side) - half_window
             window_x == ((n - 1) % side) - half_window
             window_src_y == Reflect(dest_y + window_y, 0, src1.height_ - 1)
             window_src_x == Reflect(dest_x + window_x, 0, src1.width_ - 1)
             window1_pixel == Pixel(src1, window_src_x.value, window_src_y.value)
             window2_pixel == Pixel(src2, window_src_x.value, window_src_y.value)
         IN  IF acc.thrown \/ window_src_y.thrown \/ window_src_x.thrown
             THEN TensorThrow
             ELSE TensorRet(TensorWindowFunc(acc.value, window1_pixel, window2_pixel))

\* Image<Dest> CombineWindowed(src1, src2, window_size, init_func, window_func),
\* with the lambdas of StructureTensorImageUsingCombine
CombineWindowed(src1, src2, window_size) ==
    IF src1.width_ # src2.width_ THEN ImageThrow
    ELSE IF src1.height_ # src2.height_ THEN ImageThrow
    ELSE IF window_size <= 0 \/ window_size % 2 = 0 THEN ImageThrow
    ELSE LET half_window == window_size \div 2
             cells == (2 * half_window + 1) * (2 * half_window + 1)
         IN  IF \E dest_y \in 0..(src1.height_ - 1) : \E dest_x \in 0..(src1.width_ - 1) :
                    CombineWindowedAcc(src1, src2, half_window, dest_x, dest_y, cells).thrown
             THEN ImageThrow
             ELSE ImageRet(Image(src1.width_, src1.height_,
                      [y \in 1..src1.height_ |-> [x \in 1..src1.width_ |->
                          CombineWindowedAcc(src1, src2, half_window,
                                             x - 1, y - 1, cells).value]]))

RECURSIVE StructureSums(_, _, _, _, _, _)
\* s_xx, s_xy and s_yy of the free function StructureTensorImage at
\* (dest_x, dest_y) after the first n window positions
StructureSums(i_x, i_y, half_window, dest_x, dest_y, n) ==
    IF n = 0 THEN [thrown |-> FALSE, s_xx |-> 0, s_xy |-> 0, s_yy |-> 0]
    ELSE LET sums == StructureSums(i_x, i_y, half_window, dest_x, dest_y, n - 1)
             side == 2 * half_window + 1
             window_y == dest_y - half_window + ((n - 1) \div side)
             window_x == dest_x - half_window + ((n - 1) % side)
             src_y == Reflect(window_y, 0, i_x.height_ - 1)
             src_x == Reflect(window_x, 0, i_x.width_ - 1)
             window_i_x_pixel == Pixel(i_x, src_x.value, src_y.value)
             window_i_y_pixel == Pixel(i_y, src_x.value, src_y.value)
         IN  IF sums.thrown \/ src_y.thrown \/ src_x.thrown
             THEN [thrown |-> TRUE, s_xx |-> 0, s_xy |-> 0, s_yy |-> 0]
             ELSE [thrown |-> FALSE,
                   s_xx |-> sums.s_xx + window_i_x_pixel * window_i_x_pixel,
                   s_xy |-> sums.s_xy + window_i_x_pixel * window_i_y_pixel,
                   s_yy |-> sums.s_yy + window_i_y_pixel * window_i_y_pixel]

\* The accumulation loop of the free function StructureTensorImage over the
\* derivative images i_x and i_y; dest_row[dest_x] is
\* StructureTensor(s_xx, s_xy, s_yy), whose parameters are (s_xx, s_yy, s_xy)
StructureTensorLoop(i_x, i_y, structure_size) ==
    LET half_window == structure_size \div 2
        cells == (2 * half_window + 1) * (2 * half_window + 1)
    IN  IF \E dest_y \in 0..(i_x.height_ - 1) : \E dest_x \in 0..(i_x.width_ - 1) :
               StructureSums(i_x, i_y, half_window, dest_x, dest_y, cells).thrown
        THEN ImageThrow
        ELSE ImageRet(Image(i_x.width_, i_x.height_,
                 [y \in 1..i_x.height_ |-> [x \in 1..i_x.width_ |->
                     LET sums == StructureSums(i_x, i_y, half_window,
                                               x - 1, y - 1, cells)
                     IN  [xx |-> sums.s_xx, yy |-> sums.s_xy, xy |-> sums.s_yy]]]))

RECURSIVE NonMaxPixel(_, _, _, _, _)
\* dest_pixel of the free function NonMaxSuppression at (dest_x, dest_y), at or
\* above the threshold, after the first n window positions: the loops end once
\* dest_pixel is not positive, and a position outside the image is skipped
NonMaxPixel(src, half_window, dest_x, dest_y, n) ==
    IF n = 0 THEN Pixel(src, dest_x, dest_y)
    ELSE LET dest_pixel == NonMaxPixel(src, half_window, dest_x, dest_y, n - 1)
             side == 2 * half_window + 1
             window_y == dest_y - half_window + ((n - 1) \div side)
             window_x == dest_x - half_window + ((n - 1) % side)
         IN  IF ~(dest_pixel > 0) THEN dest_pixel
             ELSE IF window_y < 0 \/ window_y >= src.height_ THEN dest_pixel
             ELSE IF window_x < 0 \/ window_x >= src.width_ THEN dest_pixel
             ELSE IF Pixel(src, window_x, window_y) > dest_pixel THEN 0
             ELSE dest_pixel

\* Image<float> NonMaxSuppression(src, window_size, threshold), the free
\* function of harris_corner_detector.h
NonMaxSuppression(src, window_size, threshold) ==
    IF window_size <= 0 \/ window_size % 2 = 0 THEN ImageThrow
    ELSE LET half_window == window_size \div 2
             cells == (2 * half_window + 1) * (2 * half_window + 1)
         IN  ImageRet(Image(src.width_, src.height_,
                 [y \in 1..src.height_ |-> [x \in 1..src.width_ |->
                     IF LessThan(Pixel(src, x - 1, y - 1), threshold) THEN 0
                     ELSE IF NonMaxPixel(src, half_window, x - 1, y - 1, cells) > 0
                          THEN 1 ELSE 0]]))

-----------------------------------------------------------------------------
(* src/harris_cpp.h: the two windowed stages of HarrisCpp.  MapWithIndex,  *)
(* CombineWithIndex, ReduceRange, Range and Point are not among the source *)
(* files; they follow the design text: a Range is an inclusive rectangle,  *)
(* ReduceRange folds every pixel of it, reflected into the image, into an  *)
(* accumulator, and MapWithIndex and CombineWithIndex hand the functor the *)
(* pixel and its Point.                                                     *)

\* Range(x1, y1, x2, y2)
Range(x1, y1, x2, y2) == [x1 |-> x1, y1 |-> y1, x2 |-> x2, y2 |-> y2]

\* A slip of the suppression fold: an equal pixel suppresses too
SuppressionFoldTies(acc, src_pixel) ==
    IF acc <= src_pixel THEN 0 ELSE acc

\* The fold of HarrisCpp::NonMaxSuppression:
\* [](float acc, float src_pixel) { return acc < src_pixel ? 0.0f : acc; }
SuppressionFold(acc, src_pixel) ==
    IF acc < src_pixel THEN 0 ELSE acc

RECURSIVE ReduceRange(_, _, _, _)
\* ReduceRange<float>(src, range, acc, func) with the suppression fold, after
\* the first n positions of the range taken row by row
ReduceRange(src, range, acc, n) ==
    IF n = 0 THEN Ret(acc)
    ELSE LET before == ReduceRange(src, range, acc, n - 1)
             side == range.x2 - range.x1 + 1
             y == Reflect(range.y1 + ((n - 1) \div side), 0, src.height_ - 1)
             x == Reflect(range.x1 + ((n - 1) % side), 0, src.width_ - 1)
         IN  IF before.thrown \/ y.thrown \/ x.thrown THEN Throw
             ELSE Ret(SuppressionFold(before.value, Pixel(src, x.value, y.value)))

\* The functor HarrisCpp::NonMaxSuppression hands to MapWithIndex
SuppressionFunctor(src, threshold, half_window, src_pixel, p) ==
    IF LessThan(src_pixel, threshold) THEN Ret(0)
    ELSE LET range == Range(p.x - half_window, p.y - half_window,
                            p.x + half_window, p.y + half_window)
         IN  ReduceRange(src, range, src_pixel,
                         (range.x2 - range.x1 + 1) * (range.y2 - range.y1 + 1))

\* Image<float> HarrisCpp::NonMaxSuppression(src, threshold), with the
\* detector's suppression_size_; MapWithIndex fills every pixel of dest
HarrisCppNonMaxSuppression(src, threshold, suppression_size) ==
    LET half_window == suppression_size \div 2
    IN  IF \E y \in 0..(src.height_ - 1) : \E x \in 0..(src.width_ - 1) :
               SuppressionFunctor(src, threshold, half_window, Pixel(src, x, y),
                                  [x |-> x, y |-> y]).thrown
        THEN ImageThrow
        ELSE ImageRet(Image(src.width_, src.height_,
                 [y \in 1..src.height_ |-> [x \in 1..src.width_ |->
                     SuppressionFunctor(src, threshold, half_window,
                                        Pixel(src, x - 1, y - 1),
                                        [x |-> x - 1, y |-> y - 1]).value]]))

\* The fold of HarrisCpp::StructureTensorImage
TensorFold(s, s_x, s_y) ==
    [xx |-> s.xx + s_x * s_x, yy |-> s.yy + s_y * s_y, xy |-> s.xy + s_x * s_y]

RECURSIVE ReduceRange2(_, _, _, _, _)
\* ReduceRange<StructureTensor>(i_x, i_y, range, acc, func) with the tensor
\* fold, after the first n positions of the range
ReduceRange2(src1, src2, range, acc, n) ==
    IF n = 0 THEN TensorRet(acc)
    ELSE LET before == ReduceRange2(src1, src2, range, acc, n - 1)
             side == range.x2 - range.x1 + 1
             y == Reflect(range.y1 + ((n - 1) \div side), 0, src1.height_ - 1)
             x == Reflect(range.x1 + ((n - 1) % side), 0, src1.width_ - 1)
         IN  IF before.thrown \/ y.thrown \/ x.thrown THEN TensorThrow
             ELSE TensorRet(TensorFold(before.value, Pixel(src1, x.value, y.value),
                                       Pixel(src2, x.value, y.value)))

\* The functor HarrisCpp::StructureTensorImage hands to CombineWithIndex
TensorFunctor(i_x, i_y, half_window, p) ==
    LET range == Range(p.x - half_window, p.y - half_window,
                       p.x + half_window, p.y + half_window)
    IN  ReduceRange2(i_x, i_y, range, StructureTensor,
                     (range.x2 - range.x1 + 1) * (range.y2 - range.y1 + 1))

\* CombineWithIndex<StructureTensor>(i_x, i_y, functor) in
\* HarrisCpp::StructureTensorImage, with the detector's structure_size_
HarrisCppStructureTensor(i_x, i_y, structure_size) ==
    LET half_window == structure_size \div 2
    IN  IF \E y \in 0..(i_x.height_ - 1) : \E x \in 0..(i_x.width_ - 1) :
               TensorFunctor(i_x, i_y, half_window, [x |-> x, y |-> y]).thrown
        THEN ImageThrow
        ELSE ImageRet(Image(i_x.width_, i_x.height_,
                 [y \in 1..i_x.height_ |-> [x \in 1..i_x.width_ |->
                     TensorFunctor(i_x, i_y, half_window,
                                   [x |-> x - 1, y |-> y - 1]).value]]))

-----------------------------------------------------------------------------
(* src/harris_base.h, src/harris_cpp.h: construction *)

\* A slip of the constructor's checks: harris_k = 0 is let through
HarrisBaseChecksZeroK(smoothing_size, structure_size, harris_k, threshold_ratio, suppression_size) ==
    IF smoothing_size <= 0 \/ smoothing_size % 2 = 0
    THEN "smoothing_size must be a positive odd number"
    ELSE IF structure_size <= 0 \/ structure_size % 2 = 0
    THEN "structure_size must be a positive odd number"
    ELSE IF suppression_size <= 0 \/ suppression_size % 2 = 0
    THEN "suppression_size must be a positive odd number"
    ELSE IF harris_k.num < 0
    THEN "harris_k must be positive"
    ELSE IF threshold_ratio.num < 0 \/ threshold_ratio.num > threshold_ratio.den
    THEN "threshold_ratio must be between 0 and 1"
    ELSE "ok"

\* The body of HarrisBase::HarrisBase: the message of the first check that
\* throws, or "ok"
HarrisBaseChecks(smoothing_size, structure_size, harris_k, threshold_ratio, suppression_size) ==
    IF smoothing_size <= 0 \/ smoothing_size % 2 = 0
    THEN "smoothing_size must be a positive odd number"
    ELSE IF structure_size <= 0 \/ structure_size % 2 = 0
    THEN "structure_size must be a positive odd number"
    ELSE IF suppression_size <= 0 \/ suppression_size % 2 = 0
    THEN "suppression_size must be a positive odd number"
    ELSE IF harris_k.num <= 0
    THEN "harris_k must be positive"
    ELSE IF threshold_ratio.num < 0 \/ threshold_ratio.num > threshold_ratio.den
    THEN "threshold_ratio must be between 0 and 1"
    ELSE "ok"

\* HarrisBase::HarrisBase: the member initialisers, then the checks
HarrisBaseCtor ==
    /\ h_pc = "HarrisBase"
    /\ smoothing_size_' = h_args.smoothing_size
    /\ structure_size_' = h_args.structure_size
    /\ k_' = h_args.harris_k
    /\ threshold_ratio_' = h_args.threshold_ratio
    /\ suppression_size_' = h_args.suppression_size
    /\ h_error' = HarrisBaseChecks(h_args.smoothing_size, h_args.structure_size,
                                   h_args.harris_k, h_args.threshold_ratio,
                                   h_args.suppression_size)
    /\ h_pc' = IF h_error' = "ok" THEN "gaussian_kernel_" ELSE "thrown"
    /\ UNCHANGED <<h_args, gaussian_kernel_, diff_x_, diff_y_>>
    /\ UNCHANGED notHarris

\* HarrisCpp::HarrisCpp: gaussian_kernel_(GaussianKernel(smoothing_size))
InitGaussianKernel ==
    /\ h_pc = "gaussian_kernel_"
    /\ LET k == GaussianKernel(h_args.smoothing_size)
       IN  /\ gaussian_kernel_' = k.value
           /\ h_pc' = IF k.thrown THEN "thrown" ELSE "diff_x_"
           /\ h_error' = IF k.thrown THEN "size parameter must be a positive odd number"
                                     ELSE h_error
    /\ UNCHANGED <<h_args, smoothing_size_, structure_size_, k_,
                   threshold_ratio_, suppression_size_, diff_x_, diff_y_>>
    /\ UNCHANGED notHarris

\* HarrisCpp::HarrisCpp: diff_x_(3, 1, {1.f, 0.f, -1.f})
InitDiffX ==
    /\ h_pc = "diff_x_"
    /\ LET k == FilterKernel(3, 1, <<1, 0, -1>>)
       IN  /\ diff_x_' = k.value
           /\ h_pc' = IF k.thrown THEN "thrown" ELSE "diff_y_"
    /\ UNCHANGED <<h_args, smoothing_size_, structure_size_, k_,
                   threshold_ratio_, suppression_size_, gaussian_kernel_,
                   diff_y_, h_error>>
    /\ UNCHANGED notHarris

\* HarrisCpp::HarrisCpp: diff_y_(1, 3, {1.f, 0.f, -1.f})
InitDiffY ==
    /\ h_pc = "diff_y_"
    /\ LET k == FilterKernel(1, 3, <<1, 0, -1>>)
       IN  /\ diff_y_' = k.value
           /\ h_pc' = IF k.thrown THEN "thrown" ELSE "constructed"
    /\ UNCHANGED <<h_args, smoothing_size_, structure_size_, k_,
                   threshold_ratio_, suppression_size_, gaussian_kernel_,
                   diff_x_, h_error>>
    /\ UNCHANGED notHarris

-----------------------------------------------------------------------------
(* The programs' idle states: a specification runs one program and leaves  *)
(* the others idle.                                                         *)

ReflectIdle ==
    /\ r_value = 0 /\ r_min = 0 /\ r_max = 0
    /\ r_result = NoResult /\ r_again = NoResult /\ r_pc = "idle"

KernelIdle ==
    /\ fk_width = 0 /\ fk_height = 0 /\ fk_values = <<>>
    /\ fk_result = KernelRet(NoKernel) /\ fk_pc = "idle"

HarrisUnbuilt ==
    /\ smoothing_size_ = 0 /\ structure_size_ = 0 /\ suppression_size_ = 0
    /\ k_ = Rat(0, 1) /\ threshold_ratio_ = Rat(0, 1)
    /\ gaussian_kernel_ = NoKernel /\ diff_x_ = NoKernel /\ diff_y_ = NoKernel
    /\ h_error = "ok"

HarrisArgs(smoothing_size, structure_size, harris_k, threshold_ratio, suppression_size) ==
    [smoothing_size |-> smoothing_size, structure_size |-> structure_size,
     harris_k |-> harris_k, threshold_ratio |-> threshold_ratio,
     suppression_size |-> suppression_size]

HarrisIdle ==
    /\ h_args = HarrisArgs(0, 0, Rat(0, 1), Rat(0, 1), 0)
    /\ HarrisUnbuilt
    /\ h_pc = "idle"

\* The arguments of an operator call; a field the operator does not take is
\* left at its default
OperatorArgs(src, src2, kernel, window_size, threshold) ==
    [src |-> src, src2 |-> src2, kernel |-> kernel, window_size |-> window_size,
     threshold |-> threshold]

OperatorIdle ==
    /\ o_op = "none"
    /\ o_args = OperatorArgs(NoImage, NoImage, NoKernel, 0, Rat(0, 1))
    /\ o_result = ImageRet(NoImage)
    /\ o_pc = "idle"

\* What a row task has read of the accumulator and not yet written back
NotRead == [read |-> FALSE, acc |-> 0]

ReduceIdle ==
    /\ rd_src = NoImage /\ rd_a0 = 0 /\ rd_acc = 0
    /\ rd_x = <<>> /\ rd_read = <<>>
    /\ rd_result = 0 /\ rd_pc = "idle"

FindCornersIdle ==
    /\ fc_response = NoImage /\ fc_max_r = 0 /\ fc_threshold = Rat(0, 1)
    /\ fc_corners = <<>> /\ fc_ratios = <<>> /\ fc_pc = "idle"

OpenCLIdle ==
    /\ cl_pc = "idle" /\ cl_step = 0
    /\ cl_handle = <<>> /\ cl_released = <<>> /\ cl_stray = {}
    /\ cl_kernel = <<>> /\ cl_queue = <<>> /\ cl_error = FALSE

RowTasksIdle ==
    /\ t_op = "none" /\ t_width = 0 /\ t_height = 0 /\ t_half_window = 0
    /\ t_x = <<>> /\ t_writes = {} /\ t_reads = {} /\ t_pc = "idle"

GaussianIdle ==
    /\ g_size = 0 /\ g_kernel_values = <<>> /\ g_sum = <<>> /\ g_divided = 0
    /\ g_result = KernelRet(NoKernel) /\ g_pc = "idle"

ImageIdle ==
    /\ im_image = NoImage /\ im_float_image = NoImage
    /\ im_structure_tensor = ImageRet(NoImage) /\ im_response = NoImage
    /\ im_acc = Rat(0, 1) /\ im_x = <<>> /\ im_read = <<>>
    /\ im_max_r = Rat(0, 1) /\ im_threshold = Rat(0, 1)
    /\ im_corners = ImageRet(NoImage) /\ im_pc = "idle"

CtorIdle ==
    /\ ic_ctor = "none" /\ ic_pixel = "none"
    /\ ic_args = [width |-> 0, height |-> 0, stride |-> 0, size |-> 0]
    /\ ic_result = [thrown |-> FALSE, width_ |-> 0, height_ |-> 0, stride_ |-> 0, size |-> 0]
    /\ ic_pc = "idle"

CornersIdle ==
    /\ hc_args = HarrisArgs(0, 0, Rat(0, 1), Rat(0, 1), 0)
    /\ hc_width = 0 /\ hc_height = 0 /\ hc_ran = <<>> /\ hc_pc = "idle"

-----------------------------------------------------------------------------
(* Reflect as a program: a caller picks the arguments, calls Reflect, and  *)
(* calls it again on the value it returned.                                *)

Coords == (0 - MaxCoord)..MaxCoord

InitReflect ==
    /\ r_value \in Coords
    /\ r_min \in Coords
    /\ r_max \in Coords
    /\ r_result = NoResult
    /\ r_again = NoResult
    /\ r_pc = "call"
    /\ KernelIdle /\ HarrisIdle /\ OperatorIdle
    /\ ReduceIdle /\ FindCornersIdle /\ RowTasksIdle /\ GaussianIdle /\ ImageIdle
    /\ CtorIdle
    /\ CornersIdle
    /\ OpenCLIdle

ReflectCall ==
    /\ r_pc = "call"
    /\ r_result' = Reflect(r_value, r_min, r_max)
    /\ r_pc' = IF r_result'.thrown THEN "thrown" ELSE "returned"
    /\ UNCHANGED <<r_value, r_min, r_max, r_again>>
    /\ UNCHANGED notReflect

ReflectTwice ==
    /\ r_pc = "returned"
    /\ r_again' = Reflect(r_result.value, r_min, r_max)
    /\ r_pc' = "twice"
    /\ UNCHANGED <<r_value, r_min, r_max, r_result>>
    /\ UNCHANGED notReflect

NextReflect == ReflectCall \/ ReflectTwice

SpecReflect == InitReflect /\ [][NextReflect]_vars

-----------------------------------------------------------------------------
(* The construction of a FilterKernel from any width, height and weights.  *)

KernelDims == (0 - 1)..MaxKernelDim

KernelWeights == {0 - 1, 0, 1}

RECURSIVE SeqsUpTo(_, _)
\* Every sequence over S of length at most n
SeqsUpTo(S, n) ==
    IF n = 0 THEN {<<>>}
    ELSE LET shorter == SeqsUpTo(S, n - 1)
         IN  shorter \cup {Append(q, x) : q \in {t \in shorter : Len(t) = n - 1},
                                          x \in S}

InitKernel ==
    /\ fk_width \in KernelDims
    /\ fk_height \in KernelDims
    /\ fk_values \in SeqsUpTo(KernelWeights, MaxKernelLen)
    /\ fk_result = KernelRet(NoKernel)
    /\ fk_pc = "new"
    /\ ReflectIdle /\ HarrisIdle /\ OperatorIdle
    /\ ReduceIdle /\ FindCornersIdle /\ RowTasksIdle /\ GaussianIdle /\ ImageIdle
    /\ CtorIdle
    /\ CornersIdle
    /\ OpenCLIdle

NewFilterKernel ==
    /\ fk_pc = "new"
    /\ fk_result' = FilterKernel(fk_width, fk_height, fk_values)
    /\ fk_pc' = IF fk_result'.thrown THEN "thrown" ELSE "constructed"
    /\ UNCHANGED <<fk_width, fk_height, fk_values>>
    /\ UNCHANGED notKernel

NextKernel == NewFilterKernel

SpecKernel == InitKernel /\ [][NextKernel]_vars

-----------------------------------------------------------------------------
(* The construction of a HarrisCpp detector from any five parameters.      *)

SizeValues == (0 - 1)..MaxSize

\* harris_k: a negative value, zero, the default 0.04
KValues == {Rat(0 - 1, 25), Rat(0, 25), Rat(1, 25)}

RatioValues == {Rat(n, RatioDen) : n \in (0 - 1)..(RatioDen + 1)}

InitHarris ==
    /\ h_args \in {HarrisArgs(sm, st, k, tr, su) :
                     sm \in SizeValues, st \in SizeValues, k \in KValues,
                     tr \in RatioValues, su \in SizeValues}
    /\ HarrisUnbuilt
    /\ h_pc = "HarrisBase"
    /\ ReflectIdle /\ KernelIdle /\ OperatorIdle
    /\ ReduceIdle /\ FindCornersIdle /\ RowTasksIdle /\ GaussianIdle /\ ImageIdle
    /\ CtorIdle
    /\ CornersIdle
    /\ OpenCLIdle

NextHarris == HarrisBaseCtor \/ InitGaussianKernel \/ InitDiffX \/ InitDiffY

SpecHarris == InitHarris /\ [][NextHarris]_vars

-----------------------------------------------------------------------------
(* One call of an image operator on any image of the family.               *)

PixelValues == (0 - 1)..MaxPixel

Positions(width, height) == (1..height) \X (1..width)

\* The images of one size: all 0 but for at most MaxPeaks pixels
ImagesOfSize(width, height) ==
    LET peaks == {P \in SUBSET Positions(width, height) : Cardinality(P) <= MaxPeaks}
    IN  UNION {{Image(width, height,
                      [y \in 1..height |-> [x \in 1..width |->
                          IF <<y, x>> \in P THEN a[<<y, x>>] ELSE 0]]) :
                    a \in [P -> PixelValues \ {0}]} : P \in peaks}

Images == UNION {ImagesOfSize(w, h) : w \in 1..MaxWidth, h \in 1..MaxHeight}

\* One image of each size up to MaxRamp by MaxRamp, pixel (x, y) being
\* x + 2*y: the filters and the tensor operators are called on these
RampImages ==
    {Image(w, h, [y \in 1..h |-> [x \in 1..w |-> (x - 1) + 2 * (y - 1)]]) :
        w \in 1..MaxRamp, h \in 1..MaxRamp}

OddSizes(n) == {size \in 1..n : size % 2 = 1}

\* The kernels a caller can construct: the two difference kernels and a box
\* of ones of every odd width and height
Kernels ==
    {FilterKernel(3, 1, <<1, 0, 0 - 1>>).value,
     FilterKernel(1, 3, <<1, 0, 0 - 1>>).value}
    \cup {FilterKernel(kw, kh, [i \in 1..(kw * kh) |-> 1]).value :
              kw \in OddSizes(MaxWindow), kh \in OddSizes(MaxWindow)}

\* The images filled with one pixel value
ConstantImages ==
    {Image(w, h, [y \in 1..h |-> [x \in 1..w |-> c]]) :
        w \in 1..MaxRamp, h \in 1..MaxRamp, c \in PixelValues}

\* Kernels whose weights sum to 1: every weight is 1 but the last, which
\* makes up the sum
NormalizedKernels ==
    {FilterKernel(kw, kh, [i \in 1..(kw * kh) |->
                              IF i = kw * kh THEN 2 - kw * kh ELSE 1]).value :
        kw \in OddSizes(MaxWindow), kh \in OddSizes(MaxWindow)}

\* Thresholds: a threshold is threshold_ratio * max_r with max_r >= 0, so it is
\* never negative; 0, between 0 and 1, 1, and the largest pixel value
Thresholds == {Rat(0, 1), Rat(1, RatioDen), Rat(1, 1), Rat(MaxPixel, 1)}

\* SobelX(src) and SobelY(src), the derivative images the tensor operators
\* are handed
SobelX(src) == Filter2d(src, FilterKernel(3, 1, <<1, 0, 0 - 1>>).value)

SobelY(src) == Filter2d(src, FilterKernel(1, 3, <<1, 0, 0 - 1>>).value)

Derivable == {src \in RampImages : src.width_ >= 2 /\ src.height_ >= 2}

\* The caller picks an operator and its arguments
OperatorCalled ==
    \/ \E src \in RampImages \cup ConstantImages,
          kernel \in Kernels \cup NormalizedKernels :
          /\ o_op = "Filter2d"
          /\ o_args = OperatorArgs(src, NoImage, kernel, 0, Rat(0, 1))
    \/ \E src \in RampImages, size \in 1..MaxWindow :
          /\ o_op = "MapWindowed"
          /\ o_args = OperatorArgs(src, NoImage, NoKernel, size, Rat(0, 1))
    \/ \E src \in Derivable, size \in 1..MaxWindow :
          /\ o_op \in {"CombineWindowed", "StructureTensorImage"}
          /\ o_args = OperatorArgs(SobelX(src).value, SobelY(src).value,
                                   NoKernel, size, Rat(0, 1))
    \/ \E src \in Derivable, size \in OddSizes(MaxWindow) :
          /\ o_op = "HarrisCpp::StructureTensorImage"
          /\ o_args = OperatorArgs(SobelX(src).value, SobelY(src).value,
                                   NoKernel, size, Rat(0, 1))
    \/ \E src \in Images, size \in 1..MaxSize, threshold \in Thresholds :
          /\ o_op = "NonMaxSuppression"
          /\ o_args = OperatorArgs(src, NoImage, NoKernel, size, threshold)
    \/ \E src \in Images, size \in OddSizes(MaxSize), threshold \in Thresholds :
          /\ o_op = "HarrisCpp::NonMaxSuppression"
          /\ o_args = OperatorArgs(src, NoImage, NoKernel, size, threshold)

InitOperator ==
    /\ OperatorCalled
    /\ o_result = ImageRet(NoImage)
    /\ o_pc = "call"
    /\ ReflectIdle /\ KernelIdle /\ HarrisIdle
    /\ ReduceIdle /\ FindCornersIdle /\ RowTasksIdle /\ GaussianIdle /\ ImageIdle
    /\ CtorIdle
    /\ CornersIdle
    /\ OpenCLIdle

\* What every operator call leaves behind
Returned(result) ==
    /\ o_result' = result
    /\ o_pc' = IF result.thrown THEN "thrown" ELSE "returned"
    /\ UNCHANGED <<o_op, o_args>>
    /\ UNCHANGED notOperator

CallFilter2d ==
    /\ o_pc = "call" /\ o_op = "Filter2d"
    /\ Returned(Filter2d(o_args.src, o_args.kernel))

CallMapWindowed ==
    /\ o_pc = "call" /\ o_op = "MapWindowed"
    /\ Returned(NonMaxSuppressionUsingMap(o_args.src, o_args.window_size,
                                          o_args.threshold))

CallCombineWindowed ==
    /\ o_pc = "call" /\ o_op = "CombineWindowed"
    /\ Returned(CombineWindowed(o_args.src, o_args.src2, o_args.window_size))

CallStructureTensorImage ==
    /\ o_pc = "call" /\ o_op = "StructureTensorImage"
    /\ Returned(StructureTensorLoop(o_args.src, o_args.src2, o_args.window_size))

CallHarrisCppStructureTensor ==
    /\ o_pc = "call" /\ o_op = "HarrisCpp::StructureTensorImage"
    /\ Returned(HarrisCppStructureTensor(o_args.src, o_args.src2,
                                         o_args.window_size))

CallNonMaxSuppression ==
    /\ o_pc = "call" /\ o_op = "NonMaxSuppression"
    /\ Returned(NonMaxSuppression(o_args.src, o_args.window_size,
                                  o_args.threshold))

CallHarrisCppNonMaxSuppression ==
    /\ o_pc = "call" /\ o_op = "HarrisCpp::NonMaxSuppression"
    /\ Returned(HarrisCppNonMaxSuppression(o_args.src, o_args.threshold,
                                           o_args.window_size))

NextOperator ==
    \/ CallFilter2d
    \/ CallMapWindowed
    \/ CallCombineWindowed
    \/ CallStructureTensorImage
    \/ CallHarrisCppStructureTensor
    \/ CallNonMaxSuppression
    \/ CallHarrisCppNonMaxSuppression

SpecOperator == InitOperator /\ [][NextOperator]_vars

-----------------------------------------------------------------------------
(* src/map_2d.h: Reduce.  The loop over y is an omp parallel for and acc    *)
(* is declared outside it, so the row tasks share acc.  A row task is row   *)
(* y + 1 of the image; the statement acc = func(acc, src_pixel) is a read   *)
(* of acc followed by a write of acc, and the tasks' reads and writes       *)
(* interleave in any order.                                                 *)

\* std::max(acc, p), the func FindCorners hands to Reduce
MaxFunc(acc, p) == IF acc < p THEN p ELSE acc

\* Reduce has been called and its row tasks start
ReduceEntered(src, acc) ==
    /\ rd_src = src
    /\ rd_a0 = acc
    /\ rd_acc = acc
    /\ rd_x = [task \in 1..src.height_ |-> 0]
    /\ rd_read = [task \in 1..src.height_ |-> NotRead]
    /\ rd_result = 0
    /\ rd_pc = "parallel"

\* A row task evaluates the argument acc of func(acc, src_pixel)
ReduceReadAcc(task) ==
    /\ rd_pc = "parallel"
    /\ rd_x[task] < rd_src.width_
    /\ ~rd_read[task].read
    /\ rd_read' = [rd_read EXCEPT ![task] = [read |-> TRUE, acc |-> rd_acc]]
    /\ UNCHANGED <<rd_src, rd_a0, rd_acc, rd_x, rd_result, rd_pc>>
    /\ UNCHANGED findCornersVars
    /\ UNCHANGED notReduce

\* The row task assigns func's result to acc and moves to the next x
ReduceWriteAcc(task) ==
    /\ rd_pc = "parallel"
    /\ rd_read[task].read
    /\ LET src_pixel == Pixel(rd_src, rd_x[task], task - 1)
       IN  rd_acc' = MaxFunc(rd_read[task].acc, src_pixel)
    /\ rd_x' = [rd_x EXCEPT ![task] = @ + 1]
    /\ rd_read' = [rd_read EXCEPT ![task] = NotRead]
    /\ UNCHANGED <<rd_src, rd_a0, rd_result, rd_pc>>
    /\ UNCHANGED findCornersVars
    /\ UNCHANGED notReduce

\* Every row task has ended: return acc
ReduceReturn ==
    /\ rd_pc = "parallel"
    /\ \A task \in 1..rd_src.height_ : rd_x[task] = rd_src.width_
    /\ rd_result' = rd_acc
    /\ rd_pc' = "returned"
    /\ UNCHANGED <<rd_src, rd_a0, rd_acc, rd_x, rd_read>>
    /\ UNCHANGED findCornersVars
    /\ UNCHANGED notReduce

\* Reduce called with std::max on any image of the family and any initial
\* accumulator
InitReduce ==
    /\ \E src \in Images, acc \in PixelValues : ReduceEntered(src, acc)
    /\ ReflectIdle /\ KernelIdle /\ HarrisIdle /\ OperatorIdle
    /\ FindCornersIdle /\ RowTasksIdle /\ GaussianIdle /\ ImageIdle
    /\ CtorIdle
    /\ CornersIdle
    /\ OpenCLIdle

NextReduce ==
    \/ \E task \in 1..MaxHeight : task <= rd_src.height_ /\ ReduceReadAcc(task)
    \/ \E task \in 1..MaxHeight : task <= rd_src.height_ /\ ReduceWriteAcc(task)
    \/ ReduceReturn

SpecReduce == InitReduce /\ [][NextReduce]_vars

-----------------------------------------------------------------------------
(* src/harris_cpp.h: HarrisCpp::FindCorners from the response image on, run *)
(* twice by a caller on the same image with the same detector.  The stages  *)
(* before the response image weigh pixels with Gaussian weights and are not *)
(* followed here: a run starts with the response image computed.            *)

\* A detector as its constructor leaves it
Constructed(args) ==
    /\ h_args = args
    /\ smoothing_size_ = args.smoothing_size
    /\ structure_size_ = args.structure_size
    /\ k_ = args.harris_k
    /\ threshold_ratio_ = args.threshold_ratio
    /\ suppression_size_ = args.suppression_size
    /\ gaussian_kernel_ = GaussianKernel(args.smoothing_size).value
    /\ diff_x_ = FilterKernel(3, 1, <<1, 0, -1>>).value
    /\ diff_y_ = FilterKernel(1, 3, <<1, 0, -1>>).value
    /\ h_error = "ok"
    /\ h_pc = "constructed"

\* const auto max_r = Reduce<float>(response, 0.0f, std::max): the call
FindCornersReduce ==
    /\ fc_pc = "Reduce"
    /\ rd_pc # "parallel"
    /\ rd_src' = fc_response
    /\ rd_a0' = 0
    /\ rd_acc' = 0
    /\ rd_x' = [task \in 1..fc_response.height_ |-> 0]
    /\ rd_read' = [task \in 1..fc_response.height_ |-> NotRead]
    /\ rd_result' = 0
    /\ rd_pc' = "parallel"
    /\ fc_pc' = "max_r"
    /\ UNCHANGED <<fc_response, fc_max_r, fc_threshold, fc_corners, fc_ratios>>
    /\ UNCHANGED notReduce

\* max_r is what Reduce returned; threshold = max_r * threshold_ratio_;
\* corners = NonMaxSuppression(response, threshold); return corners
FindCornersSuppress ==
    /\ fc_pc = "max_r"
    /\ rd_pc = "returned"
    /\ fc_max_r' = rd_result
    /\ fc_threshold' = Rat(rd_result * threshold_ratio_.num, threshold_ratio_.den)
    /\ LET corners == HarrisCppNonMaxSuppression(fc_response, fc_threshold',
                                                 suppression_size_)
       IN  /\ fc_corners' = Append(fc_corners, corners)
           /\ fc_ratios' = Append(fc_ratios, threshold_ratio_)
           /\ fc_pc' = IF corners.thrown THEN "thrown" ELSE "returned"
    /\ UNCHANGED fc_response
    /\ UNCHANGED reduceVars
    /\ UNCHANGED notReduce

\* The caller runs FindCorners a second time on the same image
FindCornersAgain ==
    /\ fc_pc = "returned"
    /\ Len(fc_corners) = 1
    /\ fc_pc' = "Reduce"
    /\ UNCHANGED <<fc_response, fc_max_r, fc_threshold, fc_corners, fc_ratios>>
    /\ UNCHANGED reduceVars
    /\ UNCHANGED notReduce

\* The response images: at least 2 by 2, as the difference kernels need; the
\* images of the family and the images filled with one value
Responses ==
    {src \in Images \cup ConstantImages :
        /\ 2 <= src.width_ /\ src.width_ <= MaxWidth
        /\ 2 <= src.height_ /\ src.height_ <= MaxHeight}

\* The detectors: threshold_ratio in [0, 1] and every odd suppression_size
Detectors ==
    {HarrisArgs(3, 3, Rat(1, 25), Rat(n, RatioDen), su) :
        n \in 0..RatioDen, su \in OddSizes(MaxSize)}

InitFindCorners ==
    /\ \E args \in Detectors : Constructed(args)
    /\ fc_response \in Responses
    /\ fc_max_r = 0 /\ fc_threshold = Rat(0, 1)
    /\ fc_corners = <<>> /\ fc_ratios = <<>>
    /\ fc_pc = "Reduce"
    /\ ReflectIdle /\ KernelIdle /\ OperatorIdle /\ ReduceIdle /\ RowTasksIdle
    /\ GaussianIdle /\ ImageIdle
    /\ CtorIdle
    /\ CornersIdle
    /\ OpenCLIdle

NextFindCorners ==
    \/ FindCornersReduce
    \/ \E task \in 1..MaxHeight : task <= rd_src.height_ /\ ReduceReadAcc(task)
    \/ \E task \in 1..MaxHeight : task <= rd_src.height_ /\ ReduceWriteAcc(task)
    \/ ReduceReturn
    \/ FindCornersSuppress
    \/ FindCornersAgain

SpecFindCorners == InitFindCorners /\ [][NextFindCorners]_vars

\* The caller constructs a second detector that differs in threshold_ratio
\* only, which is not lower, and runs its FindCorners on the same image
FindCornersRaised ==
    /\ fc_pc = "returned"
    /\ Len(fc_corners) = 1
    /\ \E n \in 0..RatioDen :
          /\ n >= threshold_ratio_.num
          /\ threshold_ratio_' = Rat(n, RatioDen)
          /\ h_args' = [h_args EXCEPT !.threshold_ratio = Rat(n, RatioDen)]
    /\ fc_pc' = "Reduce"
    /\ UNCHANGED <<fc_response, fc_max_r, fc_threshold, fc_corners, fc_ratios>>
    /\ UNCHANGED reduceVars
    /\ UNCHANGED <<smoothing_size_, structure_size_, k_, suppression_size_,
                   gaussian_kernel_, diff_x_, diff_y_, h_error, h_pc>>
    /\ UNCHANGED notRatios

NextRatios ==
    \/ FindCornersReduce
    \/ \E task \in 1..MaxHeight : task <= rd_src.height_ /\ ReduceReadAcc(task)
    \/ \E task \in 1..MaxHeight : task <= rd_src.height_ /\ ReduceWriteAcc(task)
    \/ ReduceReturn
    \/ FindCornersSuppress
    \/ FindCornersRaised

SpecRatios == InitFindCorners /\ [][NextRatios]_vars

-----------------------------------------------------------------------------
(* The row tasks of the operators whose loop over y is an omp parallel for: *)
(* which locations the task of a row reads and writes while it handles one  *)
(* pixel.  A location is a pixel of a named buffer, or the variable acc.    *)

Loc(buf, x, y) == [buf |-> buf, x |-> x, y |-> y]

Access(reads, writes) == [reads |-> reads, writes |-> writes]

\* The window positions about (x, y), brought into the image by Reflect
ReflectedWindow(buf, x, y) ==
    {Loc(buf, Reflect(window_x, 0, t_width - 1).value,
              Reflect(window_y, 0, t_height - 1).value) :
        window_x \in (x - t_half_window)..(x + t_half_window),
        window_y \in (y - t_half_window)..(y + t_half_window)}

\* The window positions about (x, y) that lie in the image
ClippedWindow(buf, x, y) ==
    {Loc(buf, window_x, window_y) :
        window_x \in {c \in (x - t_half_window)..(x + t_half_window) :
                         0 <= c /\ c < t_width},
        window_y \in {c \in (y - t_half_window)..(y + t_half_window) :
                         0 <= c /\ c < t_height}}

\* A slip of Map: the result is written over the source pixel
MapAccessInPlace(x, y) == Access({Loc("src", x, y)}, {Loc("src", x, y)})

\* Map: src_ptr[x] is read, dest_ptr[x] written
MapAccess(x, y) == Access({Loc("src", x, y)}, {Loc("dest", x, y)})

\* Reduce: src_ptr[x] and acc are read, acc is written
ReduceAccess(x, y) ==
    Access({Loc("src", x, y), Loc("acc", 0, 0)}, {Loc("acc", 0, 0)})

\* Combine: src1_ptr[x] and src2_ptr[x] are read, dest_ptr[x] written
CombineAccess(x, y) ==
    Access({Loc("src1", x, y), Loc("src2", x, y)}, {Loc("dest", x, y)})

\* MapWindowed: src_row[dest_x] and the window of src are read,
\* dest_row[dest_x] written
\* MapWindowed called with the recording functors
CallMapWindowedRecording ==
    /\ o_pc = "call" /\ o_op = "MapWindowedRecording"
    /\ Returned(MapWindowed(o_args.src, o_args.window_size, RecordingLambdas))

MapWindowedAccess(x, y) ==
    Access({Loc("src", x, y)} \cup ReflectedWindow("src", x, y),
           {Loc("dest", x, y)})

\* CombineWindowed: the pixel and the window of src1 and of src2 are read,
\* dest_row[dest_x] written
CombineWindowedAccess(x, y) ==
    Access({Loc("src1", x, y), Loc("src2", x, y)}
               \cup ReflectedWindow("src1", x, y)
               \cup ReflectedWindow("src2", x, y),
           {Loc("dest", x, y)})

\* Filter2d: the window of src and every kernel weight are read,
\* dest_row[dest_x] written
Filter2dAccess(x, y) ==
    Access(ReflectedWindow("src", x, y)
               \cup {Loc("kernel", kernel_x, kernel_y) :
                        kernel_x \in 0..(2 * t_half_window),
                        kernel_y \in 0..(2 * t_half_window)},
           {Loc("dest", x, y)})

\* StructureTensorImage: the windows of i_x and i_y are read,
\* dest_row[dest_x] written
StructureTensorImageAccess(x, y) ==
    Access(ReflectedWindow("i_x", x, y) \cup ReflectedWindow("i_y", x, y),
           {Loc("dest", x, y)})

\* NonMaxSuppression: src_ptr[dest_x] and at most the window positions inside
\* the image are read, dest_ptr[dest_x] written
NonMaxSuppressionAccess(x, y) ==
    Access({Loc("src", x, y)} \cup ClippedWindow("src", x, y),
           {Loc("dest", x, y)})

RowParallelOperators ==
    {"Map", "Reduce", "Combine", "MapWindowed", "CombineWindowed", "Filter2d",
     "StructureTensorImage", "NonMaxSuppression"}

\* The operators that call Reflect on their window coordinates
ReflectingRowOperators ==
    {"MapWindowed", "CombineWindowed", "Filter2d", "StructureTensorImage"}

RowAccess(op, x, y) ==
    CASE op = "Map" -> MapAccess(x, y)
      [] op = "Reduce" -> ReduceAccess(x, y)
      [] op = "Combine" -> CombineAccess(x, y)
      [] op = "MapWindowed" -> MapWindowedAccess(x, y)
      [] op = "CombineWindowed" -> CombineWindowedAccess(x, y)
      [] op = "Filter2d" -> Filter2dAccess(x, y)
      [] op = "StructureTensorImage" -> StructureTensorImageAccess(x, y)
      [] op = "NonMaxSuppression" -> NonMaxSuppressionAccess(x, y)

\* The task of row y = task - 1 handles its next pixel
RowTaskPixel(task) ==
    /\ t_pc = "parallel"
    /\ t_x[task] < t_width
    /\ LET access == RowAccess(t_op, t_x[task], task - 1)
       IN  /\ t_reads' = t_reads \cup
                  {[loc |-> loc, task |-> task] : loc \in access.reads}
           /\ t_writes' = t_writes \cup
                  {[loc |-> loc, task |-> task] : loc \in access.writes}
    /\ t_x' = [t_x EXCEPT ![task] = @ + 1]
    /\ UNCHANGED <<t_op, t_width, t_height, t_half_window, t_pc>>
    /\ UNCHANGED notRowTasks

\* The end of the parallel for: every row task has ended
RowTasksJoin ==
    /\ t_pc = "parallel"
    /\ \A task \in 1..t_height : t_x[task] = t_width
    /\ t_pc' = "joined"
    /\ UNCHANGED <<t_op, t_width, t_height, t_half_window, t_x, t_writes, t_reads>>
    /\ UNCHANGED notRowTasks

\* Any of the operators on an image of any size; a window operator that calls
\* Reflect is given a radius for which every Reflect call returns
InitRowTasks ==
    /\ t_op \in RowParallelOperators
    /\ t_width \in 1..MaxWidth
    /\ t_height \in 1..MaxHeight
    /\ t_half_window \in 0..(MaxWindow \div 2)
    /\ t_op \in {"Map", "Reduce", "Combine"} => t_half_window = 0
    /\ t_op \in ReflectingRowOperators =>
          (t_half_window <= t_width - 1 /\ t_half_window <= t_height - 1)
    /\ t_x = [task \in 1..t_height |-> 0]
    /\ t_writes = {}
    /\ t_reads = {}
    /\ t_pc = "parallel"
    /\ ReflectIdle /\ KernelIdle /\ HarrisIdle /\ OperatorIdle
    /\ ReduceIdle /\ FindCornersIdle /\ GaussianIdle /\ ImageIdle
    /\ CtorIdle
    /\ CornersIdle
    /\ OpenCLIdle

NextRowTasks ==
    \/ \E task \in 1..MaxHeight : task <= t_height /\ RowTaskPixel(task)
    \/ RowTasksJoin

SpecRowTasks == InitRowTasks /\ [][NextRowTasks]_vars

-----------------------------------------------------------------------------
(* src/filter_2d.h: GaussianKernel(size) step by step: the check of size,  *)
(* the loops that compute the values and add them to sum, the loop that    *)
(* divides every value by sum, and the construction of the kernel.         *)

\* if (size <= 0 || size % 2 == 0) throw
GaussianKernelCheck ==
    /\ g_pc = "call"
    /\ IF g_size <= 0 \/ g_size % 2 = 0
       THEN g_result' = KernelThrow /\ g_pc' = "thrown"
       ELSE g_result' = g_result /\ g_pc' = "values"
    /\ UNCHANGED <<g_size, g_kernel_values, g_sum, g_divided>>
    /\ UNCHANGED notGaussian

\* One turn of the loops over y and x: sum += value; push_back(value)
GaussianKernelValue ==
    /\ g_pc = "values"
    /\ LET i == Len(g_kernel_values)
           offset == g_size \div 2
           value == GaussianValue((i % g_size) - offset, (i \div g_size) - offset,
                                  g_size)
       IN  /\ g_sum' = Append(g_sum, value)
           /\ g_kernel_values' = Append(g_kernel_values, Weight(value, <<>>))
           /\ g_pc' = IF i + 1 = g_size * g_size THEN "normalize" ELSE "values"
    /\ UNCHANGED <<g_size, g_divided, g_result>>
    /\ UNCHANGED notGaussian

\* One turn of the normalizing loop: value /= sum
GaussianKernelDivide ==
    /\ g_pc = "normalize"
    /\ g_divided < Len(g_kernel_values)
    /\ g_kernel_values' = [g_kernel_values EXCEPT ![g_divided + 1] =
                              Weight(@.value, g_sum)]
    /\ g_divided' = g_divided + 1
    /\ UNCHANGED <<g_size, g_sum, g_result, g_pc>>
    /\ UNCHANGED notGaussian

\* return FilterKernel(size, size, std::move(kernel_values))
GaussianKernelReturn ==
    /\ g_pc = "normalize"
    /\ g_divided = Len(g_kernel_values)
    /\ g_result' = FilterKernel(g_size, g_size, g_kernel_values)
    /\ g_pc' = IF g_result'.thrown THEN "thrown" ELSE "returned"
    /\ UNCHANGED <<g_size, g_kernel_values, g_sum, g_divided>>
    /\ UNCHANGED notGaussian

GaussianSizes == (0 - 1)..MaxGaussian

InitGaussian ==
    /\ g_size \in GaussianSizes
    /\ g_kernel_values = <<>> /\ g_sum = <<>> /\ g_divided = 0
    /\ g_result = KernelRet(NoKernel)
    /\ g_pc = "call"
    /\ ReflectIdle /\ KernelIdle /\ HarrisIdle /\ OperatorIdle
    /\ ReduceIdle /\ FindCornersIdle /\ RowTasksIdle /\ ImageIdle
    /\ CtorIdle
    /\ CornersIdle
    /\ OpenCLIdle

NextGaussian ==
    \/ GaussianKernelCheck
    \/ GaussianKernelValue
    \/ GaussianKernelDivide
    \/ GaussianKernelReturn

SpecGaussian == InitGaussian /\ [][NextGaussian]_vars

-----------------------------------------------------------------------------
(* Claims about Reflect *)

\* C8: with min <= max, a value above max comes back as 2*max - value when
\* that is >= min and Reflect throws otherwise; a value below min comes back
\* as 2*min - value when that is <= max and Reflect throws otherwise; hence
\* whatever Reflect returns lies in [min, max].
C8_ReflectMirrors ==
    (r_pc \in {"returned", "thrown"} /\ r_min <= r_max) =>
        /\ r_value > r_max =>
              r_result = IF 2 * r_max - r_value >= r_min
                         THEN Ret(2 * r_max - r_value) ELSE Throw
        /\ r_value < r_min =>
              r_result = IF 2 * r_min - r_value <= r_max
                         THEN Ret(2 * r_min - r_value) ELSE Throw
        /\ ~r_result.thrown =>
              (r_min <= r_result.value /\ r_result.value <= r_max)

\* C8's case: a value beyond max whose mirror image is returned, and not the
\* value itself
C8_Witness ==
    /\ r_pc = "returned"
    /\ r_min <= r_max
    /\ r_value > r_max
    /\ r_result = Ret(2 * r_max - r_value)
    /\ r_result.value # r_value

\* C9: Reflect returns an in-range value unchanged and without an error, and
\* reflecting a returned value again changes nothing.
C9_ReflectIdempotent ==
    /\ (r_pc \in {"returned", "thrown", "twice"}
          /\ r_min <= r_value /\ r_value <= r_max) =>
            r_result = Ret(r_value)
    /\ r_pc = "twice" => r_again = r_result

\* C9's case: a value strictly inside the range has been reflected twice
C9_Witness ==
    /\ r_pc = "twice"
    /\ r_min < r_value /\ r_value < r_max
    /\ r_again = Ret(r_value)

-----------------------------------------------------------------------------
(* Claims about the constructors *)

OddPositive(n) == n > 0 /\ n % 2 = 1

\* C10: FilterKernel(width, height, values) throws when width or height is
\* non-positive or even or when the number of values is not width*height;
\* otherwise the kernel reports that width and height, so a kernel that exists
\* has positive odd sides and exactly width*height weights.
C10_FilterKernelValidated ==
    fk_pc \in {"thrown", "constructed"} =>
        /\ fk_result.thrown <=>
              \/ ~OddPositive(fk_width)
              \/ ~OddPositive(fk_height)
              \/ Len(fk_values) # fk_width * fk_height
        /\ (fk_pc = "thrown") <=> fk_result.thrown
        /\ ~fk_result.thrown =>
              /\ fk_result.value.width_ = fk_width
              /\ fk_result.value.height_ = fk_height
              /\ fk_result.value.data_ = fk_values
              /\ OddPositive(fk_result.value.width_)
              /\ OddPositive(fk_result.value.height_)
              /\ Len(fk_result.value.data_)
                    = fk_result.value.width_ * fk_result.value.height_

\* C10's case: a kernel wider than one weight has been constructed
C10_Witness ==
    /\ fk_pc = "constructed"
    /\ fk_result.value.width_ * fk_result.value.height_ > 1
    /\ Len(fk_result.value.data_) > 1

InvalidHarrisArgs ==
    \/ ~OddPositive(h_args.smoothing_size)
    \/ ~OddPositive(h_args.structure_size)
    \/ ~OddPositive(h_args.suppression_size)
    \/ h_args.harris_k.num <= 0
    \/ h_args.threshold_ratio.num < 0
    \/ h_args.threshold_ratio.num > h_args.threshold_ratio.den

NoKernelBuilt ==
    gaussian_kernel_ = NoKernel /\ diff_x_ = NoKernel /\ diff_y_ = NoKernel

\* C6: with a window size that is non-positive or even, harris_k <= 0 or
\* threshold_ratio outside [0,1], the construction throws before any kernel is
\* built; with none of these it never throws and ends with the three kernels
\* built.
C6_ConstructionValidated ==
    /\ InvalidHarrisArgs => (h_pc \in {"HarrisBase", "thrown"} /\ NoKernelBuilt)
    /\ (h_pc = "thrown") => (InvalidHarrisArgs /\ h_error # "ok")
    /\ (h_pc = "constructed") =>
          /\ ~InvalidHarrisArgs
          /\ gaussian_kernel_.width_ = h_args.smoothing_size
          /\ gaussian_kernel_.height_ = h_args.smoothing_size
          /\ diff_x_ = Kernel(3, 1, <<1, 0, 0 - 1>>)
          /\ diff_y_ = Kernel(1, 3, <<1, 0, 0 - 1>>)

\* C6's case: harris_k = 0 with every other parameter valid has been rejected
C6_Witness ==
    /\ h_pc = "thrown"
    /\ h_args.harris_k.num = 0
    /\ OddPositive(h_args.smoothing_size)
    /\ OddPositive(h_args.structure_size)
    /\ OddPositive(h_args.suppression_size)
    /\ h_args.threshold_ratio.num >= 0
    /\ h_args.threshold_ratio.num <= h_args.threshold_ratio.den
    /\ NoKernelBuilt


-----------------------------------------------------------------------------
(* Claims about the windowed operators *)

\* The operators of the source files that read their window through Reflect
ReflectingOperators ==
    {"Filter2d", "MapWindowed", "CombineWindowed", "StructureTensorImage"}

\* The window radius of the call along x and along y
RadiusX ==
    IF o_op = "Filter2d" THEN o_args.kernel.width_ \div 2
    ELSE o_args.window_size \div 2

RadiusY ==
    IF o_op = "Filter2d" THEN o_args.kernel.height_ \div 2
    ELSE o_args.window_size \div 2

\* The call passed the operator's own argument checks
WindowAccepted ==
    o_op \in {"MapWindowed", "CombineWindowed"} => o_args.window_size % 2 = 1

\* C7, as amended: a windowed operation whose window radius is at most the
\* image dimension minus one along each axis raises no reflection error, and
\* one whose radius reaches the dimension along an axis raises it.
C7_ReflectSucceedsBelowDimension ==
    (o_pc # "call" /\ o_op \in ReflectingOperators /\ WindowAccepted) =>
        (o_result.thrown <=>
            \/ RadiusX > o_args.src.width_ - 1
            \/ RadiusY > o_args.src.height_ - 1)

\* C7's case: an operator returned although its window reached one radius
\* beyond the image on both axes, the radius being the dimension minus one
C7_Witness ==
    /\ o_pc = "returned"
    /\ o_op \in ReflectingOperators
    /\ RadiusX >= 1 /\ RadiusX = o_args.src.width_ - 1
    /\ RadiusY >= 1 /\ RadiusY = o_args.src.height_ - 1

\* C7 as stated: a windowed operation whose window radius is at most the image
\* dimension along each axis raises no reflection error.
C7_ReflectSucceedsUpToDimension ==
    (/\ o_pc # "call" /\ o_op \in ReflectingOperators /\ WindowAccepted
     /\ RadiusX <= o_args.src.width_
     /\ RadiusY <= o_args.src.height_) =>
        ~o_result.thrown

\* The two non-maximal suppressions
SuppressionOperators == {"NonMaxSuppression", "HarrisCpp::NonMaxSuppression"}

\* No pixel of the window centred on (x, y) has a strictly greater response
WindowMaximum(src, half_window, x, y) ==
    \A window_y \in (y - half_window)..(y + half_window) :
        \A window_x \in (x - half_window)..(x + half_window) :
            (/\ 0 <= window_y /\ window_y < src.height_
             /\ 0 <= window_x /\ window_x < src.width_) =>
                Pixel(src, window_x, window_y) <= Pixel(src, x, y)

\* C5: a suppression that returns outputs 0 for a pixel below the threshold,
\* 1 for a pixel at or above the threshold that no pixel of its window
\* exceeds (ties included), and 0 for any other pixel.
C5_SuppressionMarksWindowMaxima ==
    (o_pc = "returned" /\ o_op \in SuppressionOperators) =>
        \A y \in 0..(o_args.src.height_ - 1) : \A x \in 0..(o_args.src.width_ - 1) :
            Pixel(o_result.value, x, y) =
                IF LessThan(Pixel(o_args.src, x, y), o_args.threshold) THEN 0
                ELSE IF WindowMaximum(o_args.src, o_args.window_size \div 2, x, y)
                THEN 1 ELSE 0

-----------------------------------------------------------------------------
(* Claims about the parallel row tasks *)

\* The pixel values of an image
PixelsOf(src) ==
    {Pixel(src, x, y) : x \in 0..(src.width_ - 1), y \in 0..(src.height_ - 1)}

\* The greatest member of a non-empty set of numbers
Maximum(S) == CHOOSE m \in S : \A v \in S : v <= m

\* C3: in every row-parallel operator no two row tasks write the same
\* location, and every location a task reads belongs to a buffer that no
\* other task writes during the operator.
C3_TasksShareNoWrittenLocation ==
    /\ \A a \in t_writes : \A b \in t_writes : a.loc = b.loc => a.task = b.task
    /\ \A r \in t_reads : \A w \in t_writes :
          r.loc.buf = w.loc.buf => r.task = w.task

\* C2: Reduce called with the max function and initial accumulator a0 returns
\* max(a0, every pixel value), whatever the interleaving of the row tasks.
C2_ReduceReturnsMaximum ==
    rd_pc = "returned" => rd_result = Maximum(PixelsOf(rd_src) \cup {rd_a0})

-----------------------------------------------------------------------------
(* Claims about HarrisCpp::FindCorners *)

\* C1: every pixel of a buffer FindCorners returns is exactly 0 or exactly 1.
C1_CornersAreBinary ==
    \A run \in 1..Len(fc_corners) :
        ~fc_corners[run].thrown => PixelsOf(fc_corners[run].value) \subseteq {0, 1}

\* C4: two runs of FindCorners on the same image with the same detector
\* return identical buffers, whatever the scheduling of the row tasks.
C4_RunsAgree ==
    Len(fc_corners) = 2 => fc_corners[1] = fc_corners[2]

-----------------------------------------------------------------------------
(* Claims about Filter2d *)

\* The cells (kx, ky) of a kernel
KernelCells(kernel) == (0..(kernel.width_ - 1)) \X (0..(kernel.height_ - 1))

RECURSIVE Correlation(_, _, _, _, _)
\* The sum over the given kernel cells (kx, ky) of
\* kernel[ky][kx] * src[Reflect(y + ky - kh/2)][Reflect(x + kx - kw/2)]
Correlation(src, kernel, x, y, cells) ==
    IF cells = {} THEN 0
    ELSE LET cell == CHOOSE c \in cells : TRUE
             kx == cell[1]
             ky == cell[2]
             src_y == Reflect(y + ky - kernel.height_ \div 2, 0, src.height_ - 1).value
             src_x == Reflect(x + kx - kernel.width_ \div 2, 0, src.width_ - 1).value
         IN  kernel.data_[ky * kernel.width_ + kx + 1] * Pixel(src, src_x, src_y)
                + Correlation(src, kernel, x, y, cells \ {cell})

\* C11: a buffer Filter2d returns has the width and height of src, and its
\* pixel (x, y) is the sum over the kernel cells of the weight times the
\* source pixel at the reflected position, the kernel not flipped.
C11_Filter2dCorrelates ==
    (o_pc = "returned" /\ o_op = "Filter2d") =>
        /\ o_result.value.width_ = o_args.src.width_
        /\ o_result.value.height_ = o_args.src.height_
        /\ \A y \in 0..(o_args.src.height_ - 1) : \A x \in 0..(o_args.src.width_ - 1) :
              Pixel(o_result.value, x, y)
                  = Correlation(o_args.src, o_args.kernel, x, y,
                                KernelCells(o_args.kernel))

\* C11's case: the kernel (1, 0, -1) on an image three wide gave the left
\* neighbour minus the right neighbour, which a flipped kernel would negate
C11_Witness ==
    /\ o_pc = "returned" /\ o_op = "Filter2d"
    /\ o_args.kernel.data_ = <<1, 0, 0 - 1>>
    /\ o_args.kernel.width_ = 3
    /\ o_args.src.width_ = 3
    /\ Pixel(o_result.value, 1, 0)
          = Pixel(o_args.src, 0, 0) - Pixel(o_args.src, 2, 0)
    /\ Pixel(o_result.value, 1, 0) # 0

\* Every pixel of src is c
FilledWith(src, c) == PixelsOf(src) = {c}

RECURSIVE SeqSum(_)
\* The sum of a sequence of numbers
SeqSum(values) ==
    IF values = <<>> THEN 0 ELSE values[1] + SeqSum(Tail(values))

\* C12: on a buffer filled with one constant c, at least as wide and as high
\* as the kernel, and with a kernel whose weights sum to 1, Filter2d raises
\* no error and returns a buffer whose every pixel is c.
C12_ConstantBufferKept ==
    \A c \in PixelValues :
        (/\ o_pc # "call" /\ o_op = "Filter2d"
         /\ FilledWith(o_args.src, c)
         /\ SeqSum(o_args.kernel.data_) = 1
         /\ o_args.src.width_ >= o_args.kernel.width_
         /\ o_args.src.height_ >= o_args.kernel.height_) =>
            /\ ~o_result.thrown
            /\ o_result.value = o_args.src

\* C12's case: a constant buffer other than 0, exactly as large as a kernel of
\* several unequal weights, came back unchanged
C12_Witness ==
    /\ o_pc = "returned" /\ o_op = "Filter2d"
    /\ \E c \in PixelValues \ {0} : FilledWith(o_args.src, c)
    /\ SeqSum(o_args.kernel.data_) = 1
    /\ o_args.kernel.width_ = 3 /\ o_args.kernel.height_ = 3
    /\ o_args.src.width_ = 3 /\ o_args.src.height_ = 3
    /\ o_args.kernel.data_[9] # 1
    /\ o_result.value = o_args.src

-----------------------------------------------------------------------------
(* Claims about GaussianKernel *)

\* exp of -0/0 is not a number, and neither is a value divided by a sum that
\* is not a number
NotANumber(weight) ==
    \/ weight.value.exp_den = 0
    \/ \E i \in 1..Len(weight.over) : weight.over[i].exp_den = 0

\* The weights are numbers, each one of the values divided by the sum of all
\* the values, so that they sum to 1
WeightsSumToOne(data) ==
    /\ \A i \in 1..Len(data) : ~NotANumber(data[i])
    /\ \A i \in 1..Len(data) : data[i].over = [j \in 1..Len(data) |-> data[j].value]

\* C13: for every positive odd size, size 1 included, GaussianKernel returns a
\* size x size kernel whose weights sum to 1; for a non-positive or even size
\* it throws.
C13_GaussianKernelNormalized ==
    g_pc \in {"returned", "thrown"} =>
        IF OddPositive(g_size)
        THEN /\ g_pc = "returned"
             /\ g_result.value.width_ = g_size
             /\ g_result.value.height_ = g_size
             /\ Len(g_result.value.data_) = g_size * g_size
             /\ WeightsSumToOne(g_result.value.data_)
        ELSE g_pc = "thrown"

-----------------------------------------------------------------------------
(* Claims about the structure tensor *)

\* The two structure-tensor stages
TensorOperators == {"StructureTensorImage", "HarrisCpp::StructureTensorImage"}

\* The window positions about (x, y), each brought into the image by Reflect
WindowOffsets(half_window) ==
    ((0 - half_window)..half_window) \X ((0 - half_window)..half_window)

RECURSIVE WindowSum(_, _, _, _, _)
\* The sum over the given window offsets of a * b, a and b being the pixels of
\* the images img_a and img_b at the reflected window position
WindowSum(img_a, img_b, x, y, offsets) ==
    IF offsets = {} THEN 0
    ELSE LET offset == CHOOSE o \in offsets : TRUE
             src_x == Reflect(x + offset[1], 0, img_a.width_ - 1).value
             src_y == Reflect(y + offset[2], 0, img_a.height_ - 1).value
         IN  Pixel(img_a, src_x, src_y) * Pixel(img_b, src_x, src_y)
                + WindowSum(img_a, img_b, x, y, offsets \ {offset})

\* C14: both structure-tensor stages give every pixel the tensor whose xx is
\* the sum of Ix*Ix, whose yy is the sum of Iy*Iy and whose xy is the sum of
\* Ix*Iy over the structure window about the pixel, reflected at the edges.
C14_TensorFieldsAreWindowSums ==
    (o_pc = "returned" /\ o_op \in TensorOperators) =>
        LET i_x == o_args.src
            i_y == o_args.src2
            offsets == WindowOffsets(o_args.window_size \div 2)
        IN  \A y \in 0..(i_x.height_ - 1) : \A x \in 0..(i_x.width_ - 1) :
                Pixel(o_result.value, x, y) =
                    [xx |-> WindowSum(i_x, i_x, x, y, offsets),
                     yy |-> WindowSum(i_y, i_y, x, y, offsets),
                     xy |-> WindowSum(i_x, i_y, x, y, offsets)]

-----------------------------------------------------------------------------
(* Claims about the threshold *)

\* C15: the threshold handed to the suppression is threshold_ratio times the
\* greatest value of the response buffer, whatever the buffer.
C15_ThresholdIsRatioOfMaximum ==
    Len(fc_corners) >= 1 =>
        fc_threshold.num * threshold_ratio_.den
            = Maximum(PixelsOf(fc_response)) * threshold_ratio_.num * fc_threshold.den

\* The pixels detected as corners: those of the returned buffer above 0
Detected(corners) ==
    {<<x, y>> \in (0..(corners.width_ - 1)) \X (0..(corners.height_ - 1)) :
        Pixel(corners, x, y) > 0}

\* r1 <= r2 for two ratios
RatioAtMost(r1, r2) == r1.num * r2.den <= r2.num * r1.den

\* C16: of two runs on the same image that differ in threshold_ratio only, the
\* run with the higher ratio detects a subset of the other run's corners.
C16_HigherRatioDetectsSubset ==
    (/\ Len(fc_corners) = 2
     /\ ~fc_corners[1].thrown /\ ~fc_corners[2].thrown
     /\ RatioAtMost(fc_ratios[1], fc_ratios[2])) =>
        Detected(fc_corners[2].value) \subseteq Detected(fc_corners[1].value)

\* The positions of src that hold its greatest value
ArgMax(src) ==
    {<<x, y>> \in (0..(src.width_ - 1)) \X (0..(src.height_ - 1)) :
        Pixel(src, x, y) = Maximum(PixelsOf(src))}

\* C17: with threshold_ratio 1 and a response buffer whose maximum is at one
\* pixel only, no pixel other than that one is detected.
C17_OnlyArgMaxAtRatioOne ==
    \A i \in 1..Len(fc_corners) :
        (/\ fc_ratios[i].num = fc_ratios[i].den
         /\ Cardinality(ArgMax(fc_response)) = 1
         /\ ~fc_corners[i].thrown) =>
            \A x \in 0..(fc_response.width_ - 1) : \A y \in 0..(fc_response.height_ - 1) :
                <<x, y>> \notin ArgMax(fc_response) =>
                    Pixel(fc_corners[i].value, x, y) = 0

-----------------------------------------------------------------------------
(* src/harris_cpp.h: HarrisCpp::FindCorners from the Argb32 image on.  A    *)
(* float is a fraction num/den; 0/0 is NaN, the result of 0.0f / 0.0f.  A   *)
(* sum or a product with NaN is NaN and every comparison with NaN is false. *)

NaN == Rat(0, 0)

\* A fraction with 0 written 0/1 and NaN written 0/0
Norm(r) == IF r.den = 0 THEN NaN ELSE IF r.num = 0 THEN Rat(0, 1) ELSE r

\* a + b, a - b, a * b and a < b on floats
Plus(a, b) == Norm(Rat(a.num * b.den + b.num * a.den, a.den * b.den))

Minus(a, b) == Norm(Rat(a.num * b.den - b.num * a.den, a.den * b.den))

Times(a, b) == Norm(Rat(a.num * b.num, a.den * b.den))

Less(a, b) == a.num * b.den < b.num * a.den

\* kernel_value * src_pixel.  A weight of GaussianKernel is a number other
\* than 0, or NaN: its product with NaN is NaN and with 0.0f is 0.0f
Product(kernel_value, src_pixel) ==
    IF "over" \in DOMAIN kernel_value
    THEN CASE NotANumber(kernel_value) \/ src_pixel.den = 0 -> NaN
           [] src_pixel.num = 0 -> Rat(0, 1)
    ELSE Times(kernel_value, src_pixel)

\* int Clamp(int value, int min, int max)
Clamp(value, min, max) ==
    IF value > max THEN max ELSE IF value < min THEN min ELSE value

\* Argb32(int alpha, int red, int green, int blue): the four components of
\* data, each clamped to 0..255
Argb32(alpha, red, green, blue) ==
    [alpha |-> Clamp(alpha, 0, 255), red |-> Clamp(red, 0, 255),
     green |-> Clamp(green, 0, 255), blue |-> Clamp(blue, 0, 255)]

\* The lambda of ToFloat: luma = r * 0.2126f + g * 0.7152f + b * 0.0722f with
\* r, g and b the components divided by 255
Luma(src_pixel) ==
    Norm(Rat(2126 * src_pixel.red + 7152 * src_pixel.green + 722 * src_pixel.blue,
             255 * 10000))

\* Image<float> ToFloat(const Image<Argb32>& src): Map with the luma lambda
ToFloat(src) ==
    Image(src.width_, src.height_,
          [y \in 1..src.height_ |-> [x \in 1..src.width_ |->
              Luma(Pixel(src, x - 1, y - 1))]])

\* The difference kernels' values as floats
FloatKernel(kernel) ==
    [kernel EXCEPT !.data_ = [i \in 1..Len(kernel.data_) |-> Rat(kernel.data_[i], 1)]]

RECURSIVE Filter2dFloatPixel(_, _, _, _, _)
\* dest_pixel of Filter2d at (dest_x, dest_y) after the first n kernel cells,
\* on float pixels
Filter2dFloatPixel(src, kernel, dest_x, dest_y, n) ==
    IF n = 0 THEN Ret(Rat(0, 1))
    ELSE LET dest_pixel == Filter2dFloatPixel(src, kernel, dest_x, dest_y, n - 1)
             kernel_y == (n - 1) \div kernel.width_
             kernel_x == (n - 1) % kernel.width_
             kernel_x_offset == kernel.width_ \div 2
             kernel_y_offset == kernel.height_ \div 2
             src_y == Reflect(dest_y + kernel_y - kernel_y_offset, 0, src.height_ - 1)
             src_x == Reflect(dest_x + kernel_x - kernel_x_offset, 0, src.width_ - 1)
             src_pixel == Pixel(src, src_x.value, src_y.value)
             kernel_value == kernel.data_[kernel_y * kernel.width_ + kernel_x + 1]
         IN  IF dest_pixel.thrown \/ src_y.thrown \/ src_x.thrown THEN Throw
             ELSE Ret(Plus(dest_pixel.value, Product(kernel_value, src_pixel)))

\* Filter2d(src, kernel) on float pixels
Filter2dFloat(src, kernel) ==
    LET cells == kernel.width_ * kernel.height_
    IN  IF \E dest_y \in 0..(src.height_ - 1) : \E dest_x \in 0..(src.width_ - 1) :
               Filter2dFloatPixel(src, kernel, dest_x, dest_y, cells).thrown
        THEN ImageThrow
        ELSE ImageRet(Image(src.width_, src.height_,
                 [y \in 1..src.height_ |-> [x \in 1..src.width_ |->
                     Filter2dFloatPixel(src, kernel, x - 1, y - 1, cells).value]]))

\* The fold of HarrisCpp::StructureTensorImage on float pixels
TensorFoldFloat(s, s_x, s_y) ==
    [xx |-> Plus(s.xx, Times(s_x, s_x)),
     yy |-> Plus(s.yy, Times(s_y, s_y)),
     xy |-> Plus(s.xy, Times(s_x, s_y))]

RECURSIVE ReduceRange2Float(_, _, _, _, _)
\* ReduceRange<StructureTensor>(i_x, i_y, range, acc, func) on float pixels
ReduceRange2Float(src1, src2, range, acc, n) ==
    IF n = 0 THEN TensorRet(acc)
    ELSE LET before == ReduceRange2Float(src1, src2, range, acc, n - 1)
             side == range.x2 - range.x1 + 1
             y == Reflect(range.y1 + ((n - 1) \div side), 0, src1.height_ - 1)
             x == Reflect(range.x1 + ((n - 1) % side), 0, src1.width_ - 1)
         IN  IF before.thrown \/ y.thrown \/ x.thrown THEN TensorThrow
             ELSE TensorRet(TensorFoldFloat(before.value,
                                            Pixel(src1, x.value, y.value),
                                            Pixel(src2, x.value, y.value)))

\* The functor handed to CombineWithIndex, on float pixels
TensorFunctorFloat(i_x, i_y, half_window, p) ==
    LET range == Range(p.x - half_window, p.y - half_window,
                       p.x + half_window, p.y + half_window)
    IN  ReduceRange2Float(i_x, i_y, range,
                          [xx |-> Rat(0, 1), yy |-> Rat(0, 1), xy |-> Rat(0, 1)],
                          (range.x2 - range.x1 + 1) * (range.y2 - range.y1 + 1))

\* Image<StructureTensor> HarrisCpp::StructureTensorImage(src): the three
\* Filter2d calls and CombineWithIndex
StructureTensorImageFloat(src, gaussian_kernel, diff_x, diff_y, structure_size) ==
    LET half_window == structure_size \div 2
        i_smooth == Filter2dFloat(src, gaussian_kernel)
        i_x == Filter2dFloat(i_smooth.value, FloatKernel(diff_x))
        i_y == Filter2dFloat(i_smooth.value, FloatKernel(diff_y))
    IN  IF i_smooth.thrown THEN ImageThrow
        ELSE IF i_x.thrown \/ i_y.thrown THEN ImageThrow
        ELSE IF \E y \in 0..(src.height_ - 1) : \E x \in 0..(src.width_ - 1) :
                   TensorFunctorFloat(i_x.value, i_y.value, half_window,
                                      [x |-> x, y |-> y]).thrown
        THEN ImageThrow
        ELSE ImageRet(Image(src.width_, src.height_,
                 [y \in 1..src.height_ |-> [x \in 1..src.width_ |->
                     TensorFunctorFloat(i_x.value, i_y.value, half_window,
                                        [x |-> x - 1, y |-> y - 1]).value]]))

\* The response lambda:
\* (s.xx * s.yy - s.xy * s.xy) - k * (s.xx + s.yy) * (s.xx + s.yy)
HarrisResponse(s, k) ==
    Minus(Minus(Times(s.xx, s.yy), Times(s.xy, s.xy)),
          Times(Times(k, Plus(s.xx, s.yy)), Plus(s.xx, s.yy)))

\* Map<float>(structure_tensor, the response lambda)
ResponseImage(structure_tensor, k) ==
    Image(structure_tensor.width_, structure_tensor.height_,
          [y \in 1..structure_tensor.height_ |-> [x \in 1..structure_tensor.width_ |->
              HarrisResponse(Pixel(structure_tensor, x - 1, y - 1), k)]])

\* std::max(acc, p) on floats: (acc < p) ? p : acc
MaxFuncFloat(acc, p) == IF Less(acc, p) THEN p ELSE acc

\* The suppression fold on floats: acc < src_pixel ? 0.0f : acc
SuppressionFoldFloat(acc, src_pixel) ==
    IF Less(acc, src_pixel) THEN Rat(0, 1) ELSE acc

RECURSIVE ReduceRangeFloat(_, _, _, _)
\* ReduceRange<float>(src, range, acc, func) with the suppression fold
ReduceRangeFloat(src, range, acc, n) ==
    IF n = 0 THEN Ret(acc)
    ELSE LET before == ReduceRangeFloat(src, range, acc, n - 1)
             side == range.x2 - range.x1 + 1
             y == Reflect(range.y1 + ((n - 1) \div side), 0, src.height_ - 1)
             x == Reflect(range.x1 + ((n - 1) % side), 0, src.width_ - 1)
         IN  IF before.thrown \/ y.thrown \/ x.thrown THEN Throw
             ELSE Ret(SuppressionFoldFloat(before.value, Pixel(src, x.value, y.value)))

\* The functor HarrisCpp::NonMaxSuppression hands to MapWithIndex
SuppressionFunctorFloat(src, threshold, half_window, src_pixel, p) ==
    IF Less(src_pixel, threshold) THEN Ret(Rat(0, 1))
    ELSE LET range == Range(p.x - half_window, p.y - half_window,
                            p.x + half_window, p.y + half_window)
         IN  ReduceRangeFloat(src, range, src_pixel,
                              (range.x2 - range.x1 + 1) * (range.y2 - range.y1 + 1))

\* Image<float> HarrisCpp::NonMaxSuppression(src, threshold) on float pixels
NonMaxSuppressionFloat(src, threshold, suppression_size) ==
    LET half_window == suppression_size \div 2
    IN  IF \E y \in 0..(src.height_ - 1) : \E x \in 0..(src.width_ - 1) :
               SuppressionFunctorFloat(src, threshold, half_window, Pixel(src, x, y),
                                       [x |-> x, y |-> y]).thrown
        THEN ImageThrow
        ELSE ImageRet(Image(src.width_, src.height_,
                 [y \in 1..src.height_ |-> [x \in 1..src.width_ |->
                     SuppressionFunctorFloat(src, threshold, half_window,
                                             Pixel(src, x - 1, y - 1),
                                             [x |-> x - 1, y |-> y - 1]).value]]))

\* The all-zero images: every colour component 0, transparent or opaque
BlankImages ==
    {Image(width, height, [y \in 1..height |-> [x \in 1..width |-> Argb32(alpha, 0, 0, 0)]]) :
        width \in 1..MaxBlank, height \in 1..MaxBlank, alpha \in {0, 255}}

\* The detectors: every odd smoothing, structure and suppression size, the
\* suppression windows up to MaxWindow
ImageDetectors ==
    {HarrisArgs(sm, st, Rat(1, 25), Rat(n, RatioDen), su) :
        sm \in OddSizes(MaxSize), st \in OddSizes(MaxSize), n \in 0..RatioDen,
        su \in OddSizes(MaxWindow)}

\* What a Reflect exception does to the call.  Reflect throws inside the
\* operators' parallel for loops: the exception reaches FindCorners' caller
\* when the loop runs on the calling thread alone, and ends the program
\* (std::terminate) when it leaves a row task of a thread team
Escapes == {"thrown", "terminated"}

\* const auto float_image = ToFloat(image)
FindCornersToFloat ==
    /\ im_pc = "ToFloat"
    /\ im_float_image' = ToFloat(im_image)
    /\ im_pc' = "StructureTensorImage"
    /\ UNCHANGED <<im_image, im_structure_tensor, im_response, im_acc, im_x, im_read,
                   im_max_r, im_threshold, im_corners>>
    /\ UNCHANGED notImage

\* const auto structure_tensor = StructureTensorImage(float_image)
FindCornersStructureTensor ==
    /\ im_pc = "StructureTensorImage"
    /\ im_structure_tensor' = StructureTensorImageFloat(im_float_image, gaussian_kernel_,
                                                        diff_x_, diff_y_, structure_size_)
    /\ im_pc' \in IF im_structure_tensor'.thrown THEN Escapes ELSE {"Map"}
    /\ UNCHANGED <<im_image, im_float_image, im_response, im_acc, im_x, im_read,
                   im_max_r, im_threshold, im_corners>>
    /\ UNCHANGED notImage

\* const auto response = Map<float>(structure_tensor, ...), and the call of
\* Reduce<float>(response, 0.0f, std::max), whose row tasks start
FindCornersResponse ==
    /\ im_pc = "Map"
    /\ im_response' = ResponseImage(im_structure_tensor.value, k_)
    /\ im_acc' = Rat(0, 1)
    /\ im_x' = [task \in 1..im_image.height_ |-> 0]
    /\ im_read' = [task \in 1..im_image.height_ |-> NotRead]
    /\ im_pc' = "Reduce"
    /\ UNCHANGED <<im_image, im_float_image, im_structure_tensor, im_max_r,
                   im_threshold, im_corners>>
    /\ UNCHANGED notImage

\* A row task of Reduce evaluates the argument acc of func(acc, src_pixel)
FindCornersReadAcc(task) ==
    /\ im_pc = "Reduce"
    /\ im_x[task] < im_response.width_
    /\ ~im_read[task].read
    /\ im_read' = [im_read EXCEPT ![task] = [read |-> TRUE, acc |-> im_acc]]
    /\ UNCHANGED <<im_image, im_float_image, im_structure_tensor, im_response, im_acc,
                   im_x, im_max_r, im_threshold, im_corners, im_pc>>
    /\ UNCHANGED notImage

\* The row task assigns func's result to acc and moves to the next x
FindCornersWriteAcc(task) ==
    /\ im_pc = "Reduce"
    /\ im_read[task].read
    /\ LET src_pixel == Pixel(im_response, im_x[task], task - 1)
       IN  im_acc' = MaxFuncFloat(im_read[task].acc, src_pixel)
    /\ im_x' = [im_x EXCEPT ![task] = @ + 1]
    /\ im_read' = [im_read EXCEPT ![task] = NotRead]
    /\ UNCHANGED <<im_image, im_float_image, im_structure_tensor, im_response,
                   im_max_r, im_threshold, im_corners, im_pc>>
    /\ UNCHANGED notImage

\* Reduce returns acc as max_r; threshold = max_r * threshold_ratio_
FindCornersThreshold ==
    /\ im_pc = "Reduce"
    /\ \A task \in 1..im_response.height_ : im_x[task] = im_response.width_
    /\ im_max_r' = im_acc
    /\ im_threshold' = Times(im_acc, threshold_ratio_)
    /\ im_pc' = "NonMaxSuppression"
    /\ UNCHANGED <<im_image, im_float_image, im_structure_tensor, im_response, im_acc,
                   im_x, im_read, im_corners>>
    /\ UNCHANGED notImage

\* A slip of the last step: when the suppression throws, the response image
\* is handed back in place of the corners
FindCornersCornersKept ==
    /\ im_pc = "NonMaxSuppression"
    /\ LET corners == NonMaxSuppressionFloat(im_response, im_threshold, suppression_size_)
       IN  /\ im_corners' = IF corners.thrown THEN ImageRet(im_response) ELSE corners
           /\ im_pc' \in IF corners.thrown THEN Escapes ELSE {"returned"}
    /\ UNCHANGED <<im_image, im_float_image, im_structure_tensor, im_response, im_acc,
                   im_x, im_read, im_max_r, im_threshold>>
    /\ UNCHANGED notImage

\* const auto corners = NonMaxSuppression(response, threshold); return corners
FindCornersCorners ==
    /\ im_pc = "NonMaxSuppression"
    /\ im_corners' = NonMaxSuppressionFloat(im_response, im_threshold, suppression_size_)
    /\ im_pc' \in IF im_corners'.thrown THEN Escapes ELSE {"returned"}
    /\ UNCHANGED <<im_image, im_float_image, im_structure_tensor, im_response, im_acc,
                   im_x, im_read, im_max_r, im_threshold>>
    /\ UNCHANGED notImage

\* FindCorners called on an all-zero image by any of the detectors
InitImage ==
    /\ \E args \in ImageDetectors : Constructed(args)
    /\ im_image \in BlankImages
    /\ im_float_image = NoImage
    /\ im_structure_tensor = ImageRet(NoImage) /\ im_response = NoImage
    /\ im_acc = Rat(0, 1) /\ im_x = <<>> /\ im_read = <<>>
    /\ im_max_r = Rat(0, 1) /\ im_threshold = Rat(0, 1)
    /\ im_corners = ImageRet(NoImage)
    /\ im_pc = "ToFloat"
    /\ ReflectIdle /\ KernelIdle /\ OperatorIdle /\ ReduceIdle /\ FindCornersIdle
    /\ RowTasksIdle /\ GaussianIdle
    /\ CtorIdle
    /\ CornersIdle
    /\ OpenCLIdle

NextImage ==
    \/ FindCornersToFloat
    \/ FindCornersStructureTensor
    \/ FindCornersResponse
    \/ \E task \in 1..MaxBlank : task <= im_response.height_ /\ FindCornersReadAcc(task)
    \/ \E task \in 1..MaxBlank : task <= im_response.height_ /\ FindCornersWriteAcc(task)
    \/ FindCornersThreshold
    \/ FindCornersCorners

SpecImage == InitImage /\ [][NextImage]_vars

\* Every pixel of a float image is 0
AllZero(img) ==
    \A y \in 0..(img.height_ - 1) : \A x \in 0..(img.width_ - 1) :
        Pixel(img, x, y) = Rat(0, 1)

\* C18: on an all-zero image large enough for every window FindCorners returns
\* an all-zero image, with max_r 0 and threshold 0.
C18_BlankImageGivesBlankCorners ==
    im_pc = "returned" =>
        /\ AllZero(im_response) /\ im_max_r = Rat(0, 1) /\ im_threshold = Rat(0, 1)
        /\ AllZero(im_corners.value)

\* The buffers an operator is handed: its source images and the kernel
SourceBuffers == {"src", "src1", "src2", "i_x", "i_y", "kernel"}

-----------------------------------------------------------------------------
(* src/map_2d.h: Combine and CombineWindowed called on two images of any  *)
(* sizes.                                                                   *)

\* A functor a caller hands to Combine: the sum of the two pixels
AddFunc(src1_pixel, src2_pixel) == src1_pixel + src2_pixel

\* A slip of Combine: the heights are not compared, and a row src2 does not
\* have is taken as zeros
CombineWidthOnly(src1, src2) ==
    IF src1.width_ # src2.width_ THEN ImageThrow
    ELSE ImageRet(Image(src1.width_, src1.height_,
             [y \in 1..src1.height_ |-> [x \in 1..src1.width_ |->
                 IF y <= src2.height_
                 THEN AddFunc(Pixel(src1, x - 1, y - 1), Pixel(src2, x - 1, y - 1))
                 ELSE AddFunc(Pixel(src1, x - 1, y - 1), 0)]]))

\* Image<Dest> Combine(src1, src2, func)
Combine(src1, src2) ==
    IF src1.width_ # src2.width_ THEN ImageThrow
    ELSE IF src1.height_ # src2.height_ THEN ImageThrow
    ELSE ImageRet(Image(src1.width_, src1.height_,
             [y \in 1..src1.height_ |-> [x \in 1..src1.width_ |->
                 AddFunc(Pixel(src1, x - 1, y - 1), Pixel(src2, x - 1, y - 1))]]))

CallCombine ==
    /\ o_pc = "call" /\ o_op = "Combine"
    /\ Returned(Combine(o_args.src, o_args.src2))

\* Combine or CombineWindowed called on any two images, of equal sizes or not
InitCombine ==
    /\ \E src1 \in ConstantImages \cup RampImages, src2 \in ConstantImages,
          size \in 0..MaxSize :
          /\ o_op \in {"Combine", "CombineWindowed"}
          /\ o_op = "Combine" => size = 0
          /\ o_args = OperatorArgs(src1, src2, NoKernel, size, Rat(0, 1))
    /\ o_result = ImageRet(NoImage)
    /\ o_pc = "call"
    /\ ReflectIdle /\ KernelIdle /\ HarrisIdle
    /\ ReduceIdle /\ FindCornersIdle /\ RowTasksIdle /\ GaussianIdle /\ ImageIdle
    /\ CtorIdle
    /\ CornersIdle
    /\ OpenCLIdle

NextCombine ==
    \/ CallCombine
    \/ CallCombineWindowed

SpecCombine == InitCombine /\ [][NextCombine]_vars

\* Two images of one width and one height
SameSize(src1, src2) ==
    src1.width_ = src2.width_ /\ src1.height_ = src2.height_

\* C20: Combine and CombineWindowed throw, handing back no image, whenever the
\* two sources differ in width or in height; an image they return has the
\* sources' width and height, and Combine returns whenever the sizes agree.
C20_CombineChecksSizes ==
    (o_pc # "call" /\ o_op \in {"Combine", "CombineWindowed"}) =>
        /\ ~SameSize(o_args.src, o_args.src2) =>
              (o_result.thrown /\ o_result.value = NoImage)
        /\ ~o_result.thrown =>
              (SameSize(o_result.value, o_args.src) /\ SameSize(o_result.value, o_args.src2))
        /\ (o_op = "Combine" /\ SameSize(o_args.src, o_args.src2)) => ~o_result.thrown

\* Combine has thrown on two images of one width and different heights
C20_Witness ==
    /\ o_pc = "thrown" /\ o_op = "Combine"
    /\ o_args.src.width_ = o_args.src2.width_
    /\ o_args.src.height_ # o_args.src2.height_

-----------------------------------------------------------------------------
(* src/image.h: the four constructors of Image<P>.  An object is its        *)
(* width_, height_, stride_ and the size of data_ in bytes.                 *)

\* sizeof(P) for the three pixel types
SizeOf(pixel) == IF pixel = "StructureTensor" THEN 12 ELSE 4

PixelTypes == {"Argb32", "float", "StructureTensor"}

ImageObject(width, height, stride, size) ==
    [thrown |-> FALSE, width_ |-> width, height_ |-> height, stride_ |-> stride,
     size |-> size]

\* The constructor threw: there is no object
NoObject ==
    [thrown |-> TRUE, width_ |-> 0, height_ |-> 0, stride_ |-> 0, size |-> 0]

\* Image()
ImageDefault == ImageObject(0, 0, 0, 0)

\* Image(int width, int height): data_ is allocated first (a negative byte
\* count makes the allocation throw), then width and height are checked
ImageSized(pixel, width, height) ==
    IF width * height * SizeOf(pixel) < 0 THEN NoObject
    ELSE IF width <= 0 THEN NoObject
    ELSE IF height <= 0 THEN NoObject
    ELSE ImageObject(width, height, width * SizeOf(pixel),
                     width * height * SizeOf(pixel))

\* Image(std::vector<uint8_t> data, int width, int height, size_t stride):
\* the stride is compared with width*4 whatever P is
ImageFromVector(pixel, size, width, height, stride) ==
    IF width <= 0 THEN NoObject
    ELSE IF height <= 0 THEN NoObject
    ELSE IF stride < width * 4 THEN NoObject
    ELSE IF size < stride * height THEN NoObject
    ELSE ImageObject(width, height, stride, size)

\* Image(const uint8_t* data, int width, int height, size_t stride): data_ is
\* copied from stride*height bytes first (a negative count makes the copy
\* throw), then the checks
ImageFromPointer(pixel, width, height, stride) ==
    IF stride * height < 0 THEN NoObject
    ELSE IF width <= 0 THEN NoObject
    ELSE IF height <= 0 THEN NoObject
    ELSE IF stride < width * SizeOf(pixel) THEN NoObject
    ELSE ImageObject(width, height, stride, stride * height)

Constructs(object) ==
    /\ ic_pc = "call"
    /\ ic_result' = object
    /\ ic_pc' = IF object.thrown THEN "thrown" ELSE "constructed"
    /\ UNCHANGED <<ic_ctor, ic_pixel, ic_args>>
    /\ UNCHANGED notCtor

CallImageDefault ==
    /\ ic_ctor = "default"
    /\ Constructs(ImageDefault)

CallImageSized ==
    /\ ic_ctor = "sized"
    /\ Constructs(ImageSized(ic_pixel, ic_args.width, ic_args.height))

CallImageFromVector ==
    /\ ic_ctor = "vector"
    /\ Constructs(ImageFromVector(ic_pixel, ic_args.size, ic_args.width,
                                  ic_args.height, ic_args.stride))

CallImageFromPointer ==
    /\ ic_ctor = "pointer"
    /\ Constructs(ImageFromPointer(ic_pixel, ic_args.width, ic_args.height,
                                   ic_args.stride))

\* The arguments a caller can pass to each constructor
CtorCalled ==
    \/ /\ ic_ctor = "default"
       /\ ic_args = [width |-> 0, height |-> 0, stride |-> 0, size |-> 0]
    \/ /\ ic_ctor = "sized"
       /\ \E width \in (0 - 1)..MaxImageDim, height \in (0 - 1)..MaxImageDim :
             ic_args = [width |-> width, height |-> height, stride |-> 0, size |-> 0]
    \/ /\ ic_ctor = "vector"
       /\ \E width \in (0 - 1)..MaxImageDim, height \in (0 - 1)..MaxImageDim,
             stride \in 0..MaxStride, size \in 0..MaxBytes :
             ic_args = [width |-> width, height |-> height, stride |-> stride,
                        size |-> size]
    \/ /\ ic_ctor = "pointer"
       /\ \E width \in (0 - 1)..MaxImageDim, height \in (0 - 1)..MaxImageDim,
             stride \in 0..MaxStride :
             ic_args = [width |-> width, height |-> height, stride |-> stride,
                        size |-> 0]

InitCtor ==
    /\ ic_pixel \in PixelTypes
    /\ CtorCalled
    /\ ic_result = NoObject
    /\ ic_pc = "call"
    /\ ReflectIdle /\ KernelIdle /\ HarrisIdle /\ OperatorIdle /\ ReduceIdle
    /\ FindCornersIdle /\ RowTasksIdle /\ GaussianIdle /\ ImageIdle
    /\ CornersIdle
    /\ OpenCLIdle

NextCtor ==
    \/ CallImageDefault
    \/ CallImageSized
    \/ CallImageFromVector
    \/ CallImageFromPointer

SpecCtor == InitCtor /\ [][NextCtor]_vars

\* C21: every Image<P> a constructor creates has width > 0, height > 0 and
\* stride >= width * sizeof(P).
C21_ImageHasPositiveSize ==
    ic_pc = "constructed" =>
        /\ ic_result.width_ > 0 /\ ic_result.height_ > 0
        /\ ic_result.stride_ >= ic_result.width_ * SizeOf(ic_pixel)

\* A buffer of the image's width and height with every pixel present
FullBuffer(img, width, height) ==
    /\ img.width_ = width /\ img.height_ = height
    /\ Len(img.data_) = height
    /\ \A y \in 1..height : Len(img.data_[y]) = width

\* C22: a FindCorners call that returns hands back a full buffer; a call
\* that fails hands back no buffer at all; and a stage that fails (Reflect
\* throwing in it) makes the whole call fail.
C22_AllOrNothing ==
    /\ im_pc = "returned" =>
          (~im_corners.thrown
           /\ FullBuffer(im_corners.value, im_image.width_, im_image.height_))
    /\ im_pc \in Escapes => im_corners.value = NoImage
    /\ (im_structure_tensor.thrown \/ im_corners.thrown) => im_pc \in Escapes

\* The suppression stage has failed on Reflect after every earlier stage ran,
\* and the caller has the exception
C22_Witness ==
    /\ im_pc = "thrown"
    /\ ~im_structure_tensor.thrown /\ im_response # NoImage
    /\ im_corners.thrown

-----------------------------------------------------------------------------
(* The sizes of the buffers: FindCorners on an image, and the operators of  *)
(* src/map_2d.h and src/filter_2d.h each called on images of any width and  *)
(* height.                                                                  *)

\* A functor a caller hands to Map: twice the pixel
DoubleFunc(src_pixel) == 2 * src_pixel

\* A slip of Map: dest is allocated height wide and width high
MapTransposed(src) ==
    ImageRet(Image(src.height_, src.width_,
        [y \in 1..src.width_ |-> [x \in 1..src.height_ |->
            DoubleFunc(Pixel(src, y - 1, x - 1))]]))

\* Image<Dest> Map(const Image<Src>& src, MapFunc func)
Map(src) ==
    ImageRet(Image(src.width_, src.height_,
        [y \in 1..src.height_ |-> [x \in 1..src.width_ |->
            DoubleFunc(Pixel(src, x - 1, y - 1))]]))

CallMap ==
    /\ o_pc = "call" /\ o_op = "Map"
    /\ Returned(Map(o_args.src))

\* The five operators, each called on images of every width and height
SizesCalled ==
    \/ \E src \in RampImages \cup ConstantImages :
          /\ o_op = "Map"
          /\ o_args = OperatorArgs(src, NoImage, NoKernel, 0, Rat(0, 1))
    \/ \E src1 \in RampImages, src2 \in ConstantImages :
          /\ o_op = "Combine"
          /\ o_args = OperatorArgs(src1, src2, NoKernel, 0, Rat(0, 1))
    \/ \E src \in RampImages, size \in (0 - 1)..MaxWindow :
          /\ o_op = "MapWindowed"
          /\ o_args = OperatorArgs(src, NoImage, NoKernel, size, Rat(1, 1))
    \/ \E src1 \in RampImages, src2 \in ConstantImages, size \in (0 - 1)..MaxWindow :
          /\ o_op = "CombineWindowed"
          /\ o_args = OperatorArgs(src1, src2, NoKernel, size, Rat(0, 1))
    \/ \E src \in RampImages, kernel \in Kernels :
          /\ o_op = "Filter2d"
          /\ o_args = OperatorArgs(src, NoImage, kernel, 0, Rat(0, 1))
    \/ \E src \in RampImages, size \in (0 - 1)..MaxWindow :
          /\ o_op = "MapWindowedRecording"
          /\ o_args = OperatorArgs(src, NoImage, NoKernel, size, Rat(0, 1))

InitSizesOperators ==
    /\ SizesCalled
    /\ o_result = ImageRet(NoImage)
    /\ o_pc = "call"
    /\ ReflectIdle /\ KernelIdle /\ HarrisIdle /\ ReduceIdle /\ FindCornersIdle
    /\ RowTasksIdle /\ GaussianIdle /\ ImageIdle /\ CtorIdle
    /\ CornersIdle
    /\ OpenCLIdle

\* Either an operator is called or FindCorners is
StartSizes == InitSizesOperators \/ InitImage

NextSizes ==
    \/ CallMap
    \/ CallCombine
    \/ CallMapWindowed
    \/ CallMapWindowedRecording
    \/ CallCombineWindowed
    \/ CallFilter2d
    \/ NextImage

SpecSizes == StartSizes /\ [][NextSizes]_vars

\* C23: the buffer FindCorners returns has the input image's width and
\* height, and so has what Map, Combine, MapWindowed, CombineWindowed and
\* Filter2d return, relative to their source.
C23_SizesKept ==
    /\ im_pc = "returned" =>
          /\ im_corners.value.width_ = im_image.width_
          /\ im_corners.value.height_ = im_image.height_
    /\ (o_pc = "returned"
        /\ o_op \in {"Map", "Combine", "MapWindowed", "CombineWindowed", "Filter2d"}) =>
          FullBuffer(o_result.value, o_args.src.width_, o_args.src.height_)

\* Map has returned on an image that is not square
C23_Witness ==
    /\ o_pc = "returned" /\ o_op = "Map"
    /\ o_args.src.width_ # o_args.src.height_

-----------------------------------------------------------------------------
(* src/harris_corner_detector.h: the free function HarrisCorners, stage by  *)
(* stage.  What is followed is which stages process pixels and where the    *)
(* call stops; the pixel values do not enter into either.                   *)

\* size / 2 in C++: the quotient is truncated toward zero
Half(size) == IF size >= 0 THEN size \div 2 ELSE 0 - ((0 - size) \div 2)

\* Every Reflect call of a window loop of the given half sizes returns, on an
\* image width wide and height high
WindowReflects(width, height, half_x, half_y) ==
    /\ \A dest_x \in 0..(width - 1) : \A window_x \in (0 - half_x)..half_x :
          ~Reflect(dest_x + window_x, 0, width - 1).thrown
    /\ \A dest_y \in 0..(height - 1) : \A window_y \in (0 - half_y)..half_y :
          ~Reflect(dest_y + window_y, 0, height - 1).thrown

\* A stage has processed the pixels of its source
Ran(stage, next) ==
    /\ hc_ran' = Append(hc_ran, stage)
    /\ hc_pc' = next
    /\ UNCHANGED <<hc_args, hc_width, hc_height>>
    /\ UNCHANGED notCorners

\* The call has stopped in a stage: outcomes is {"thrown"} for an exception
\* thrown before a parallel loop, Escapes for one thrown by Reflect inside it
Stopped(outcomes) ==
    /\ hc_pc' \in outcomes
    /\ UNCHANGED <<hc_args, hc_width, hc_height, hc_ran>>
    /\ UNCHANGED notCorners

\* const auto i_smooth = Gaussian(src, 1.0f, smoothing_size): GaussianKernel
\* checks the size, then Filter2d
HarrisCornersGaussian ==
    /\ hc_pc = "Gaussian"
    /\ IF hc_args.smoothing_size <= 0 \/ hc_args.smoothing_size % 2 = 0
       THEN Stopped({"thrown"})
       ELSE IF ~WindowReflects(hc_width, hc_height, Half(hc_args.smoothing_size),
                               Half(hc_args.smoothing_size))
       THEN Stopped(Escapes)
       ELSE Ran("Gaussian", "SobelX")

\* const auto i_x = SobelX(i_smooth): Filter2d with the 3 x 1 kernel
HarrisCornersSobelX ==
    /\ hc_pc = "SobelX"
    /\ IF ~WindowReflects(hc_width, hc_height, 1, 0) THEN Stopped(Escapes)
       ELSE Ran("SobelX", "SobelY")

\* const auto i_y = SobelY(i_smooth): Filter2d with the 1 x 3 kernel
HarrisCornersSobelY ==
    /\ hc_pc = "SobelY"
    /\ IF ~WindowReflects(hc_width, hc_height, 0, 1) THEN Stopped(Escapes)
       ELSE Ran("SobelY", "StructureTensorImage")

\* The window loops of StructureTensorImage: half_window = structure_size / 2
\* with no check of structure_size
HarrisCornersTensor ==
    /\ hc_pc = "StructureTensorImage"
    /\ IF ~WindowReflects(hc_width, hc_height, Half(hc_args.structure_size),
                          Half(hc_args.structure_size))
       THEN Stopped(Escapes)
       ELSE Ran("StructureTensorImage", "Map")

\* const auto r = Map(s, the response lambda with harris_k)
HarrisCornersMap ==
    /\ hc_pc = "Map"
    /\ Ran("Map", "Reduce")

\* const auto max_r = Reduce(r, 0.0f, std::max);
\* const auto threshold = max_r * threshold_ratio
HarrisCornersReduce ==
    /\ hc_pc = "Reduce"
    /\ Ran("Reduce", "NonMaxSuppression")

\* const auto corners = NonMaxSuppression(r, suppression_size, threshold),
\* which checks window_size first; return corners
HarrisCornersSuppress ==
    /\ hc_pc = "NonMaxSuppression"
    /\ IF hc_args.suppression_size <= 0 \/ hc_args.suppression_size % 2 = 0
       THEN Stopped({"thrown"})
       ELSE Ran("NonMaxSuppression", "returned")

\* The parameters a caller can pass, valid or not
CornerArgs ==
    {HarrisArgs(sm, st, Rat(k, 25), Rat(n, RatioDen), su) :
        sm \in (0 - 1)..MaxCornerSize, st \in (0 - 1)..MaxCornerSize,
        k \in (0 - 1)..1, n \in (0 - 1)..(RatioDen + 1),
        su \in (0 - 1)..MaxCornerSize}

InitCorners ==
    /\ hc_args \in CornerArgs
    /\ hc_width \in 1..MaxCornerDim
    /\ hc_height \in 1..MaxCornerDim
    /\ hc_ran = <<>>
    /\ hc_pc = "Gaussian"
    /\ ReflectIdle /\ KernelIdle /\ HarrisIdle /\ OperatorIdle /\ ReduceIdle
    /\ FindCornersIdle /\ RowTasksIdle /\ GaussianIdle /\ ImageIdle /\ CtorIdle
    /\ OpenCLIdle

NextCorners ==
    \/ HarrisCornersGaussian
    \/ HarrisCornersSobelX
    \/ HarrisCornersSobelY
    \/ HarrisCornersTensor
    \/ HarrisCornersMap
    \/ HarrisCornersReduce
    \/ HarrisCornersSuppress

SpecCorners == InitCorners /\ [][NextCorners]_vars

\* A parameter HarrisCorners is to reject
InvalidCornerArgs(args) ==
    \/ ~OddPositive(args.smoothing_size)
    \/ ~OddPositive(args.structure_size)
    \/ ~OddPositive(args.suppression_size)
    \/ args.harris_k.num <= 0
    \/ args.threshold_ratio.num < 0
    \/ args.threshold_ratio.num > args.threshold_ratio.den

\* C24: HarrisCorners called with an invalid parameter processes no pixel:
\* no filtering, tensor, response or later stage runs, and it does not return.
C24_RejectsBeforeProcessing ==
    InvalidCornerArgs(hc_args) => (hc_ran = <<>> /\ hc_pc # "returned")

-----------------------------------------------------------------------------
(* src/harris_opencv.h: HarrisOpenCV::NonMaxSuppression, and the three      *)
(* suppressions called on the same response buffers.                        *)

\* A slip of the OpenCV suppression: a window pixel equal to dest_pixel
\* suppresses it too
OpenCVNonMaxSuppressionTies(src, block_size, threshold) ==
    LET half_block == block_size \div 2
    IN  ImageRet(Image(src.width_, src.height_,
            [y \in 1..src.height_ |-> [x \in 1..src.width_ |->
                IF LessThan(Pixel(src, x - 1, y - 1), threshold) THEN 0
                ELSE IF \E w_row \in (y - 1 - half_block)..(y - 1 + half_block),
                           w_col \in (x - 1 - half_block)..(x - 1 + half_block) :
                           /\ 0 <= w_row /\ w_row < src.height_
                           /\ 0 <= w_col /\ w_col < src.width_
                           /\ <<w_col, w_row>> # <<x - 1, y - 1>>
                           /\ Pixel(src, w_col, w_row) >= Pixel(src, x - 1, y - 1)
                     THEN 0
                     ELSE Pixel(src, x - 1, y - 1)]]))

\* void HarrisOpenCV::NonMaxSuppression(src, dest, block_size, threshold):
\* the window loops are those of the free function NonMaxSuppression (they
\* end once dest_pixel is not positive and skip positions outside the image),
\* and dest_row[col] = dest_pixel, the response itself
OpenCVNonMaxSuppression(src, block_size, threshold) ==
    LET half_block == block_size \div 2
        cells == (2 * half_block + 1) * (2 * half_block + 1)
    IN  ImageRet(Image(src.width_, src.height_,
            [y \in 1..src.height_ |-> [x \in 1..src.width_ |->
                IF LessThan(Pixel(src, x - 1, y - 1), threshold) THEN 0
                ELSE NonMaxPixel(src, half_block, x - 1, y - 1, cells)]]))

CallOpenCVNonMaxSuppression ==
    /\ o_pc = "call" /\ o_op = "HarrisOpenCV::NonMaxSuppression"
    /\ Returned(OpenCVNonMaxSuppression(o_args.src, o_args.window_size,
                                        o_args.threshold))

\* The response buffers: all 0 but for a pixel of response 1 and one more
\* pixel of any value, smaller, equal or greater, anywhere in the buffer
PeakImages ==
    {Image(w, h, [y \in 1..h |-> [x \in 1..w |->
            IF <<y, x>> = q THEN 1 ELSE IF <<y, x>> = p THEN a ELSE 0]]) :
        w \in 1..MaxSuppressDim, h \in 1..MaxSuppressDim,
        p \in Positions(MaxSuppressDim, MaxSuppressDim),
        q \in Positions(MaxSuppressDim, MaxSuppressDim),
        a \in PixelValues}

InitSuppression ==
    /\ \E src \in PeakImages, size \in OddSizes(MaxSize), threshold \in Thresholds :
          o_args = OperatorArgs(src, NoImage, NoKernel, size, threshold)
    /\ o_op \in {"NonMaxSuppression", "HarrisCpp::NonMaxSuppression",
                 "HarrisOpenCV::NonMaxSuppression"}
    /\ o_result = ImageRet(NoImage)
    /\ o_pc = "call"
    /\ ReflectIdle /\ KernelIdle /\ HarrisIdle /\ ReduceIdle /\ FindCornersIdle
    /\ RowTasksIdle /\ GaussianIdle /\ ImageIdle /\ CtorIdle /\ CornersIdle
    /\ OpenCLIdle

NextSuppression ==
    \/ CallNonMaxSuppression
    \/ CallHarrisCppNonMaxSuppression
    \/ CallOpenCVNonMaxSuppression

SpecSuppression == InitSuppression /\ [][NextSuppression]_vars

\* C25: on one response buffer, window size and threshold the three
\* suppressions mark the same pixels (output > 0), whenever the reflecting
\* one raises no reflection error: what each of the three returns marks the
\* pixels the free function marks.
C25_SuppressionsMarkSamePixels ==
    (/\ o_pc = "returned"
     /\ ~HarrisCppNonMaxSuppression(o_args.src, o_args.threshold,
                                    o_args.window_size).thrown) =>
        Detected(o_result.value)
            = Detected(NonMaxSuppression(o_args.src, o_args.window_size,
                                         o_args.threshold).value)

\* The OpenCV suppression has returned on a 3-wide buffer with two equal
\* peaks side by side, window 3: both are marked, and the window of the
\* first column does not reach the third
C25_Witness ==
    /\ o_pc = "returned" /\ o_op = "HarrisOpenCV::NonMaxSuppression"
    /\ o_args.window_size = 3 /\ o_args.src.width_ = 3
    /\ Pixel(o_args.src, 0, 0) = 1 /\ Pixel(o_args.src, 1, 0) = 1
    /\ Cardinality(Detected(o_result.value)) = 2

\* C26: NonMaxSuppressionUsingMap returns the buffer NonMaxSuppression
\* returns, for every buffer, odd window size and threshold on which both
\* return, a pixel equal to the threshold included.
C26_UsingMapAgrees ==
    (/\ o_pc = "returned" /\ o_op = "MapWindowed"
     /\ ~NonMaxSuppression(o_args.src, o_args.window_size, o_args.threshold).thrown) =>
        o_result = NonMaxSuppression(o_args.src, o_args.window_size, o_args.threshold)

\* The argument checks that precede the pixel loops have passed: the window
\* size is positive and odd and the two sources have one size
WindowChecksPassed ==
    \/ o_op = "Filter2d"
    \/ /\ o_op = "MapWindowed"
       /\ o_args.window_size > 0 /\ o_args.window_size % 2 = 1
    \/ /\ o_op = "CombineWindowed"
       /\ o_args.window_size > 0 /\ o_args.window_size % 2 = 1
       /\ SameSize(o_args.src, o_args.src2)

\* C27: Filter2d, MapWindowed and CombineWindowed raise the reflection error
\* exactly when the half window along some axis exceeds that axis's dimension
\* minus one: they return on every buffer wider and higher than the half
\* window, and fail on a buffer 1 wide or 1 high with a window of 3 or more
\* along that axis.
C27_ReflectionErrorIffWindowTooLarge ==
    (o_pc # "call" /\ WindowChecksPassed) =>
        /\ o_result.thrown <=>
              \/ RadiusX > o_args.src.width_ - 1
              \/ RadiusY > o_args.src.height_ - 1
        /\ (o_args.src.width_ > RadiusX /\ o_args.src.height_ > RadiusY) =>
              o_pc = "returned"
        /\ (o_args.src.width_ = 1 /\ RadiusX >= 1) => o_pc = "thrown"
        /\ (o_args.src.height_ = 1 /\ RadiusY >= 1) => o_pc = "thrown"

\* C27's case: CombineWindowed with a window of 3 failed on sources 1 wide
\* and more than 1 high, after its size and window checks passed
C27_Witness ==
    /\ o_pc = "thrown" /\ o_op = "CombineWindowed"
    /\ WindowChecksPassed
    /\ o_args.window_size = 3
    /\ o_args.src.width_ = 1 /\ o_args.src.height_ > 1

\* The coordinate Reflect returns for a position at most one dimension
\* outside [0, max]
Mirrored(value, max) ==
    IF value < 0 THEN 0 - value
    ELSE IF value > max THEN max + max - value
    ELSE value

\* The pixels of the window_size x window_size window centred on (x, y),
\* row by row, each position outside the buffer read at its mirror image
WindowRowMajor(src, window_size, x, y) ==
    [n \in 1..(window_size * window_size) |->
        Pixel(src,
              Mirrored(x - (window_size \div 2) + ((n - 1) % window_size), src.width_ - 1),
              Mirrored(y - (window_size \div 2) + ((n - 1) \div window_size), src.height_ - 1))]

\* C28: every output pixel of MapWindowed is final_func(acc), acc being
\* init_func(centre pixel) folded with window_func over the window_size *
\* window_size window positions in row-major order, the centre included and
\* positions outside the buffer read at their reflected coordinate; a
\* non-positive or even window_size fails.
C28_MapWindowedFoldsWindow ==
    (o_pc # "call" /\ o_op = "MapWindowedRecording") =>
        /\ (o_args.window_size <= 0 \/ o_args.window_size % 2 = 0) => o_pc = "thrown"
        /\ o_pc = "returned" =>
              \A y \in 0..(o_args.src.height_ - 1) : \A x \in 0..(o_args.src.width_ - 1) :
                  Pixel(o_result.value, x, y) =
                      [final |-> <<Pixel(o_args.src, x, y)>> \o
                                 WindowRowMajor(o_args.src, o_args.window_size, x, y)]

\* C28's case: MapWindowed returned with a window of 3 on a buffer 3 wide and
\* 2 high, where the window of a corner pixel reaches outside on two sides
C28_Witness ==
    /\ o_pc = "returned" /\ o_op = "MapWindowedRecording"
    /\ o_args.window_size = 3
    /\ o_args.src.width_ = 3 /\ o_args.src.height_ = 2
    /\ Len(Pixel(o_result.value, 0, 0).final) = 10

-----------------------------------------------------------------------------
(* src/harris_opencl.h: HarrisOpenCL::FindCorners.  The host thread walks   *)
(* the OpenCL calls of the try block, then the releases; the device runs    *)
(* the enqueued kernels.  A local declared again inside the try block is    *)
(* written try::name; the outer local of that name is never assigned.       *)

\* The locals declared before the try block
OuterLocals ==
    {"command_queue",
     "smoothing_kernel", "diff_x_kernel", "diff_y_kernel", "structure_kernel",
     "response_kernel", "row_max_kernel", "max_kernel", "suppression_kernel",
     "src_image", "gaussian_buffer", "smooth_image", "i_x_image", "i_y_image",
     "structure_image", "response_image", "row_max_buffer", "corner_image",
     "smoothing_complete", "diff_x_complete", "diff_y_complete",
     "structure_complete", "response_complete", "row_max_complete",
     "max_complete", "suppression_complete"}

\* cl_mem gaussian_buffer, cl_mem row_max_buffer and auto max_kernel are
\* declared inside the try block and hide the outer locals
TryLocals ==
    {"try::gaussian_buffer", "try::row_max_buffer", "try::max_kernel"}

Locals == OuterLocals \cup TryLocals

\* The kernels of the program, in the order FindCorners enqueues them
ClKernels ==
    <<"Smoothing", "DiffX", "DiffY", "Structure", "Response", "RowMax", "Max",
      "NonMaxSuppression">>

KernelNames == {ClKernels[i] : i \in 1..Len(ClKernels)}

\* One OpenCL call of the try block: the local that receives the handle (for
\* an enqueue, the event), the kernel enqueued, the events of the wait list,
\* and whether CheckError follows the call
Step(call, local, kernel, waits, checked) ==
    [call |-> call, local |-> local, kernel |-> kernel, waits |-> waits,
     checked |-> checked]

Create(call, local) == Step(call, local, "", {}, TRUE)

\* The try block up to the blocking read
Steps ==
    << Create("clCreateCommandQueue", "command_queue"),
       Create("clCreateKernel", "smoothing_kernel"),
       Create("clCreateImage", "src_image"),
       Create("clCreateBuffer", "try::gaussian_buffer"),
       Create("clCreateImage", "smooth_image"),
       Step("clEnqueueNDRangeKernel", "smoothing_complete", "Smoothing", {}, TRUE),
       Create("clCreateKernel", "diff_x_kernel"),
       Create("clCreateImage", "i_x_image"),
       Step("clEnqueueNDRangeKernel", "diff_x_complete", "DiffX",
            {"smoothing_complete"}, TRUE),
       Create("clCreateKernel", "diff_y_kernel"),
       Create("clCreateImage", "i_y_image"),
       Step("clEnqueueNDRangeKernel", "diff_y_complete", "DiffY",
            {"smoothing_complete"}, TRUE),
       Create("clCreateKernel", "structure_kernel"),
       Create("clCreateImage", "structure_image"),
       Step("clEnqueueNDRangeKernel", "structure_complete", "Structure",
            {"diff_x_complete", "diff_y_complete"}, TRUE),
       Create("clCreateKernel", "response_kernel"),
       Create("clCreateImage", "response_image"),
       Step("clEnqueueNDRangeKernel", "response_complete", "Response",
            {"structure_complete"}, TRUE),
       Create("clCreateKernel", "row_max_kernel"),
       Create("clCreateBuffer", "try::row_max_buffer"),
       Step("clEnqueueNDRangeKernel", "row_max_complete", "RowMax",
            {"response_complete"}, TRUE),
       Create("clCreateKernel", "try::max_kernel"),
       Step("clEnqueueTask", "max_complete", "Max", {"row_max_complete"}, TRUE),
       Create("clCreateKernel", "suppression_kernel"),
       Create("clCreateImage", "corner_image"),
       Step("clEnqueueNDRangeKernel", "suppression_complete", "NonMaxSuppression",
            {"response_complete"}, FALSE),
       Step("clEnqueueReadImage", "corner_image", "", {"suppression_complete"}, TRUE) >>

\* The releases at the end of the try block; the names are looked up in the
\* try block's scope
Releases ==
    <<"command_queue",
      "smoothing_kernel", "diff_x_kernel", "diff_y_kernel", "structure_kernel",
      "response_kernel", "row_max_kernel", "try::max_kernel", "suppression_kernel",
      "src_image", "try::gaussian_buffer", "smooth_image", "i_x_image", "i_y_image",
      "structure_image", "response_image", "try::row_max_buffer", "corner_image",
      "smoothing_complete", "diff_x_complete", "diff_y_complete",
      "structure_complete", "response_complete", "row_max_complete",
      "max_complete", "suppression_complete">>

\* The releases after the catch blocks; the names are the outer locals
CleanupReleases ==
    <<"command_queue",
      "smoothing_kernel", "diff_x_kernel", "diff_y_kernel", "structure_kernel",
      "response_kernel", "max_kernel", "suppression_kernel",
      "src_image", "gaussian_buffer", "smooth_image", "i_x_image", "i_y_image",
      "structure_image", "response_image", "corner_image",
      "smoothing_complete", "diff_x_complete", "diff_y_complete",
      "structure_complete", "response_complete", "suppression_complete">>

\* A command queue created with properties out of order runs a command as
\* soon as its wait list allows
QueueOutOfOrder == {"CL_QUEUE_OUT_OF_ORDER_EXEC_MODE_ENABLE"}

\* clCreateCommandQueue(context_, device_ids_[1], 0, &error): no property is
\* set, so the queue runs its commands in the order they were enqueued
QueueProperties == {}

\* The memory objects handed to a kernel with clSetKernelArg
KernelArgs(kernel) ==
    CASE kernel = "Smoothing" -> {"src_image", "try::gaussian_buffer", "smooth_image"}
      [] kernel = "DiffX" -> {"smooth_image", "i_x_image"}
      [] kernel = "DiffY" -> {"smooth_image", "i_y_image"}
      [] kernel = "Structure" -> {"i_x_image", "i_y_image", "structure_image"}
      [] kernel = "Response" -> {"structure_image", "response_image"}
      [] kernel = "RowMax" -> {"response_image", "try::row_max_buffer"}
      [] kernel = "Max" -> {"try::row_max_buffer"}
      [] kernel = "NonMaxSuppression" ->
            {"response_image", "try::row_max_buffer", "corner_image"}

\* The memory object a kernel writes: the stage's output buffer; Max leaves
\* the global maximum in the row-max buffer
KernelWrites(kernel) ==
    CASE kernel = "Smoothing" -> "smooth_image"
      [] kernel = "DiffX" -> "i_x_image"
      [] kernel = "DiffY" -> "i_y_image"
      [] kernel = "Structure" -> "structure_image"
      [] kernel = "Response" -> "response_image"
      [] kernel = "RowMax" -> "try::row_max_buffer"
      [] kernel = "Max" -> "try::row_max_buffer"
      [] kernel = "NonMaxSuppression" -> "corner_image"

\* The memory objects a kernel reads: its other arguments, and for Max the
\* row maxima it reduces
KernelReads(kernel) ==
    IF kernel = "Max" THEN {"try::row_max_buffer"}
    ELSE KernelArgs(kernel) \ {KernelWrites(kernel)}

\* The event an enqueue of the kernel stores
CompleteEvent(kernel) ==
    Steps[CHOOSE i \in 1..Len(Steps) : Steps[i].kernel = kernel].local

\* The wait list the kernel was enqueued with
WaitList(kernel) ==
    Steps[CHOOSE i \in 1..Len(Steps) : Steps[i].kernel = kernel].waits

\* The kernel whose completion the event reports
KernelOf(event) ==
    CHOOSE kernel \in KernelNames : CompleteEvent(kernel) = event

\* The position of the kernel in the command queue
QueuePosition(kernel) ==
    CHOOSE i \in 1..Len(cl_queue) : cl_queue[i] = kernel

\* The device may start a queued kernel once the events of its wait list are
\* complete and, in an in-order queue, the commands enqueued before it are
CanStart(kernel) ==
    /\ cl_kernel[kernel] = "queued"
    /\ \A event \in WaitList(kernel) : cl_kernel[KernelOf(event)] = "complete"
    /\ "CL_QUEUE_OUT_OF_ORDER_EXEC_MODE_ENABLE" \notin QueueProperties =>
          \A i \in 1..(QueuePosition(kernel) - 1) : cl_kernel[cl_queue[i]] = "complete"

\* The process is still there
Alive == cl_pc \notin {"idle", "terminated", "crashed"}

\* clCreateCommandQueue, clCreateKernel, clCreateImage, clCreateBuffer followed
\* by CheckError: on failure the call returns a null handle, which is stored,
\* and CheckError throws
ClCreate ==
    /\ cl_pc = "try" /\ cl_step <= Len(Steps)
    /\ Steps[cl_step].kernel = "" /\ Steps[cl_step].call # "clEnqueueReadImage"
    /\ LET local == Steps[cl_step].local
       IN  \/ /\ cl_handle' = [cl_handle EXCEPT ![local] = local]
              /\ cl_step' = cl_step + 1
              /\ UNCHANGED <<cl_pc, cl_error>>
           \/ /\ cl_handle' = [cl_handle EXCEPT ![local] = "null"]
              /\ cl_pc' = "catch" /\ cl_error' = TRUE
              /\ UNCHANGED cl_step
    /\ UNCHANGED <<cl_released, cl_stray, cl_kernel, cl_queue>>
    /\ UNCHANGED notOpenCL

\* clEnqueueNDRangeKernel / clEnqueueTask: on success the kernel is in the
\* queue and the event is stored; on failure the event local is left as it
\* was, and CheckError throws where the call is followed by one
ClEnqueue ==
    /\ cl_pc = "try" /\ cl_step <= Len(Steps)
    /\ Steps[cl_step].kernel # ""
    /\ LET step == Steps[cl_step]
       IN  \/ /\ cl_handle' = [cl_handle EXCEPT ![step.local] = step.local]
              /\ cl_kernel' = [cl_kernel EXCEPT ![step.kernel] = "queued"]
              /\ cl_queue' = Append(cl_queue, step.kernel)
              /\ cl_step' = cl_step + 1
              /\ UNCHANGED <<cl_pc, cl_error>>
           \/ /\ step.checked
              /\ cl_pc' = "catch" /\ cl_error' = TRUE
              /\ UNCHANGED <<cl_handle, cl_kernel, cl_queue, cl_step>>
           \/ /\ ~step.checked
              /\ cl_step' = cl_step + 1
              /\ UNCHANGED <<cl_handle, cl_kernel, cl_queue, cl_pc, cl_error>>
    /\ UNCHANGED <<cl_released, cl_stray>>
    /\ UNCHANGED notOpenCL

\* clEnqueueReadImage with CL_TRUE: returns once the read is done, which is
\* after the events of its wait list and, in an in-order queue, after every
\* command before it; or fails.  With an event of the wait list never stored
\* the call reads an uninitialised handle.
ClRead ==
    /\ cl_pc = "try" /\ cl_step <= Len(Steps)
    /\ Steps[cl_step].call = "clEnqueueReadImage"
    /\ LET waits == Steps[cl_step].waits
       IN  \/ /\ \A event \in waits : cl_handle[event] = event
              /\ \A event \in waits : cl_kernel[KernelOf(event)] = "complete"
              /\ "CL_QUEUE_OUT_OF_ORDER_EXEC_MODE_ENABLE" \notin QueueProperties =>
                    \A i \in 1..Len(cl_queue) : cl_kernel[cl_queue[i]] = "complete"
              /\ cl_pc' = "release" /\ cl_step' = 1
              /\ UNCHANGED cl_error
           \/ /\ cl_pc' = "catch" /\ cl_error' = TRUE
              /\ UNCHANGED cl_step
           \/ /\ \E event \in waits : cl_handle[event] = "uninit"
              /\ cl_pc' = "crashed"
              /\ UNCHANGED <<cl_step, cl_error>>
    /\ UNCHANGED <<cl_handle, cl_released, cl_stray, cl_kernel, cl_queue>>
    /\ UNCHANGED notOpenCL

\* The device starts a kernel
ClKernelStart(kernel) ==
    /\ Alive
    /\ CanStart(kernel)
    /\ cl_kernel' = [cl_kernel EXCEPT ![kernel] = "running"]
    /\ UNCHANGED <<cl_pc, cl_step, cl_handle, cl_released, cl_stray, cl_queue, cl_error>>
    /\ UNCHANGED notOpenCL

\* The device completes a kernel
ClKernelComplete(kernel) ==
    /\ Alive
    /\ cl_kernel[kernel] = "running"
    /\ cl_kernel' = [cl_kernel EXCEPT ![kernel] = "complete"]
    /\ UNCHANGED <<cl_pc, cl_step, cl_handle, cl_released, cl_stray, cl_queue, cl_error>>
    /\ UNCHANGED notOpenCL

\* clRelease*(local): the object the local holds is released once more.  A
\* null handle is refused by the call; a local that was never assigned holds
\* any value, and the call may refuse it or fault.
ReleaseLocal(local, next_pc, next_step) ==
    \/ /\ cl_handle[local] = local
       /\ cl_released' = [cl_released EXCEPT ![local] = @ + 1]
       /\ cl_pc' = next_pc /\ cl_step' = next_step
       /\ UNCHANGED cl_stray
    \/ /\ cl_handle[local] = "null"
       /\ cl_stray' = cl_stray \cup {local}
       /\ cl_pc' = next_pc /\ cl_step' = next_step
       /\ UNCHANGED cl_released
    \/ /\ cl_handle[local] = "uninit"
       /\ cl_stray' = cl_stray \cup {local}
       /\ \/ cl_pc' = next_pc /\ cl_step' = next_step
          \/ cl_pc' = "crashed" /\ UNCHANGED cl_step
       /\ UNCHANGED cl_released

\* The releases at the end of the try block, then return corners
ClRelease ==
    /\ cl_pc = "release"
    /\ IF cl_step < Len(Releases)
       THEN ReleaseLocal(Releases[cl_step], "release", cl_step + 1)
       ELSE ReleaseLocal(Releases[cl_step], "returned", 0)
    /\ UNCHANGED <<cl_handle, cl_kernel, cl_queue, cl_error>>
    /\ UNCHANGED notOpenCL

\* catch(const std::exception&) / catch(...): the message is printed and
\* control leaves the handler
ClCatch ==
    /\ cl_pc = "catch"
    /\ cl_pc' = "cleanup" /\ cl_step' = 1
    /\ UNCHANGED <<cl_handle, cl_released, cl_stray, cl_kernel, cl_queue, cl_error>>
    /\ UNCHANGED notOpenCL

\* The releases after the catch blocks
ClCleanup ==
    /\ cl_pc = "cleanup"
    /\ IF cl_step < Len(CleanupReleases)
       THEN ReleaseLocal(CleanupReleases[cl_step], "cleanup", cl_step + 1)
       ELSE ReleaseLocal(CleanupReleases[cl_step], "rethrow", 0)
    /\ UNCHANGED <<cl_handle, cl_kernel, cl_queue, cl_error>>
    /\ UNCHANGED notOpenCL

\* What std::rethrow_exception does with the null exception_ptr that
\* std::current_exception() returns outside a handler
RethrowOutcomes == {"terminated", "crashed", "bad_exception"}

\* std::rethrow_exception(std::current_exception()) after the handler ended
ClRethrow ==
    /\ cl_pc = "rethrow"
    /\ cl_pc' \in RethrowOutcomes
    /\ UNCHANGED <<cl_step, cl_handle, cl_released, cl_stray, cl_kernel, cl_queue, cl_error>>
    /\ UNCHANGED notOpenCL

\* FindCorners is entered: no local holds a handle yet
InitOpenCL ==
    /\ cl_pc = "try" /\ cl_step = 1
    /\ cl_handle = [local \in Locals |-> "uninit"]
    /\ cl_released = [local \in Locals |-> 0]
    /\ cl_stray = {}
    /\ cl_kernel = [kernel \in KernelNames |-> "idle"]
    /\ cl_queue = <<>>
    /\ cl_error = FALSE
    /\ ReflectIdle /\ KernelIdle /\ HarrisIdle /\ OperatorIdle /\ ReduceIdle
    /\ FindCornersIdle /\ RowTasksIdle /\ GaussianIdle /\ ImageIdle /\ CtorIdle
    /\ CornersIdle

NextOpenCL ==
    \/ ClCreate
    \/ ClEnqueue
    \/ ClRead
    \/ \E kernel \in KernelNames : ClKernelStart(kernel)
    \/ \E kernel \in KernelNames : ClKernelComplete(kernel)
    \/ ClRelease
    \/ ClCatch
    \/ ClCleanup
    \/ ClRethrow

SpecOpenCL == InitOpenCL /\ [][NextOpenCL]_vars

\* The kernels enqueued before the kernel that write a memory object it reads
Producers(kernel) ==
    {ClKernels[j] : j \in {i \in 1..Len(ClKernels) :
        /\ i < (CHOOSE k \in 1..Len(ClKernels) : ClKernels[k] = kernel)
        /\ KernelWrites(ClKernels[i]) \in KernelReads(kernel)}}

\* C29: in HarrisOpenCL::FindCorners a kernel starts only after every kernel
\* whose output it reads has completed; the NonMaxSuppression kernel never
\* starts before the RowMax and Max kernels have completed.
C29_KernelsRunInDataFlowOrder ==
    /\ \A kernel \in KernelNames :
          cl_kernel[kernel] \in {"running", "complete"} =>
              \A producer \in Producers(kernel) : cl_kernel[producer] = "complete"
    /\ cl_kernel["NonMaxSuppression"] \in {"running", "complete"} =>
          (cl_kernel["RowMax"] = "complete" /\ cl_kernel["Max"] = "complete")

\* C29's case: the NonMaxSuppression kernel is running; the kernels whose
\* output it reads are Response, RowMax and Max
C29_Witness ==
    /\ cl_kernel["NonMaxSuppression"] = "running"
    /\ Producers("NonMaxSuppression") = {"Response", "RowMax", "Max"}

\* The call is over: it returned, or left by an exception, or the process ended
ClOver == cl_pc \in {"returned", "bad_exception", "terminated", "crashed"}

\* C30: when HarrisOpenCL::FindCorners is over, on the normal path and after
\* a CheckError failure at any step, every OpenCL object created during the
\* call has been released exactly once, no handle that was never created
\* has been released, and a failure has reached the caller as an exception.
C30_ReleasedExactlyOnce ==
    ClOver =>
        /\ \A local \in Locals : cl_handle[local] = local => cl_released[local] = 1
        /\ cl_stray = {}
        /\ cl_error => cl_pc = "bad_exception"

====
